---------------------------- MODULE Spec2Model ----------------------------
(***************************************************************************)
(* Discovery & Sync Engine of the job extractor.                           *)
(*                                                                         *)
(*   SpecFlush    APIStore: queueing records and flush_batches             *)
(*                (src/bot/persistence/api_store.py)                       *)
(*   SpecExtract  JobExtractor.start_extract / extraction_loop / save_job  *)
(*                driven on one extractor object                           *)
(*                (src/bot/discovery/extractor.py)                         *)
(*   Spec         run_extraction as written, under the scheduler           *)
(*                (src/daily_extractor.py, src/scheduler.py)               *)
(*   SpecLocation the distance-bucket loop of run_extraction from the      *)
(*                point where an extractor object exists                   *)
(*   SpecLadder   SpecLocation for one candidate, any ladder setting       *)
(*   SpecRetry    the JobExtractor objects constructed for one location,   *)
(*                a new one after each session error of start_extract      *)
(*   SpecLive     Spec with the interpreter always taking its next step    *)
(*   SpecStartup  Spec started in any environment of secrets               *)
(*   SpecClient   BaseAPIClient: construction, token cache and             *)
(*                _request_with_retry (src/bot/api/base_client.py)         *)
(*   SpecOwners   JobExtractor objects of several candidates, one after    *)
(*                the other, on one database                               *)
(*   SpecPaging   SpecExtract under a time budget of many pages            *)
(*   SpecBuckets  the JobExtractor objects run_extraction constructs, one   *)
(*                per distance bucket, were the constructor to accept the  *)
(*                call                                                     *)
(*   SpecPasses   SpecExtract on pages that show one card per pass, a       *)
(*                fast-apply card with a key never met before or a card    *)
(*                met before, under a time budget of one page              *)
(*   SpecPaginate SpecExtract on a browser that raises no error, on pages   *)
(*                that show one card per pass, under a time budget of many *)
(*                pages                                                    *)
(*   SpecScroll   the scroll routine of extraction_loop on a page whose     *)
(*                card count changes in any way                            *)
(*   SpecIdentity JobIdentity.extract_job_id, called twice, on any job     *)
(*                card element                                             *)
(*                (src/bot/discovery/job_identity.py)                      *)
(*   SpecCountry  the country APIStore._prepare_payload derives            *)
(*                (src/bot/persistence/api_store.py)                       *)
(*                                                                         *)
(* Text is modelled as a sequence of one-character strings, so that        *)
(* lower-casing and keyword search are computed, not assumed.              *)
(***************************************************************************)
EXTENDS Integers, Sequences, FiniteSets, TLC

VARIABLES
    \* ---- APIStore (api_store.py)
    batch_buffer,      \* APIStore.batch_buffer: sequence of job_data
    last_flush,        \* what the last flush_batches call did (history)
    flush_calls,       \* number of flush_batches calls made so far (history)
    \* ---- run_extraction (daily_extractor.py) under scheduler.py
    candidates,        \* the list load_candidates_with_enrichment returned
    dist_list,         \* dist_list built from global_settings
    rpc,               \* position of the run
    cand_idx,          \* index of `cand` in `for cand in candidates`
    browser,           \* "none" (browser is None) or "open"
    remaining_locations,
    dist_idx,          \* index of current_dist in `for current_dist in dist_list`
    location_extraction_total,
    last_error,        \* what the last run of the except block did (history)
    \* ---- JobExtractor (extractor.py)
    epc,               \* position inside start_extract / extraction_loop
    limit,             \* start_extract's limit
    combos_left,       \* combos of combo_list not yet taken
    total_extracted,   \* start_extract's running total
    extracted_total,   \* extraction_loop's counter
    jobs_per_page,     \* extraction_loop's page offset
    budget_pages,      \* pages that can be loaded within MAX_SEARCH_TIME
    iteration,         \* passes made over the current page
    processed_job_ids_on_page,
    links,             \* number of elements `for link in links` has yet to take
    found_new_in_iteration,
    seen_jobs,         \* JobExtractor.seen_jobs
    extracted_jobs,    \* job_id column of the extracted_jobs table
    owners,            \* candidate_id column of the table, by job_id (0: no row)
    candidate_id,      \* JobExtractor.candidate_id (0: no extractor)
    counted_keys,      \* keys for which the counters were incremented (history)
    last_exam,         \* what the last examination of an element did (history)
    raised_msg,        \* the exception that left start_extract, if any
    \* ---- BaseAPIClient (base_client.py) and its process environment
    client_env,        \* os.environ and the terminal of the process
    client_up,         \* a BaseAPIClient has been constructed in this process
    api_token,         \* self.api_token; 0 is the empty string
    token_expiry,      \* self.token_expiry; 0 is None
    api_creds,         \* self.api_email and self.api_password are both set
    token_file,        \* content of data/.api_token.json
    clock,             \* int(time.time())
    last_call,         \* what the last constructor or request call did (history)
    \* ---- routines taken on their own
    fpc,               \* position in the routine ("idle": none is running)
    \* ---- JobIdentity.extract_job_id
    element,           \* the job card element given to extract_job_id
    found_id,          \* what extract_job_id returned; 0 is None
    \* ---- APIStore._prepare_payload, the country of the payload
    job_data,          \* the zipcode and location of the job_data given
    default_country,   \* DEFAULT_COUNTRY of os.environ (<<>>: not set)
    country,           \* payload["country"]
    \* ---- the scroll routine of extraction_loop
    scroll_num,        \* scroll rounds performed
    last_count,        \* last_count
    stable_iterations  \* stable_iterations

flushVars == <<batch_buffer, last_flush, flush_calls>>

clientVars == <<client_env, client_up, api_token, token_expiry, api_creds,
                token_file, clock, last_call>>

runOwnVars == <<candidates, dist_list, rpc, cand_idx, browser,
                remaining_locations, dist_idx, location_extraction_total,
                last_error>>

identityVars == <<element, found_id>>
countryVars == <<job_data, default_country, country>>
scrollVars == <<scroll_num, last_count, stable_iterations>>
fnVars == <<fpc, identityVars, countryVars, scrollVars>>

\* the variables of the run; the client and the routines are left alone by
\* every step that is not theirs
runVars == <<runOwnVars, clientVars, fnVars>>

exVars == <<epc, limit, combos_left, total_extracted, extracted_total,
            jobs_per_page, budget_pages, iteration, processed_job_ids_on_page, links,
            found_new_in_iteration, seen_jobs, extracted_jobs,
            owners, candidate_id, counted_keys, last_exam, raised_msg>>

vars == <<batch_buffer, last_flush, flush_calls,
          candidates, dist_list, rpc, cand_idx, browser,
          remaining_locations, dist_idx, location_extraction_total,
          last_error,
          epc, limit, combos_left, total_extracted, extracted_total,
          jobs_per_page, budget_pages, iteration, processed_job_ids_on_page, links,
          found_new_in_iteration, seen_jobs, extracted_jobs,
          owners, candidate_id, counted_keys, last_exam, raised_msg,
          client_env, client_up, api_token, token_expiry, api_creds,
          token_file, clock, last_call,
          fpc, element, found_id, job_data, default_country, country,
          scroll_num, last_count, stable_iterations>>

-----------------------------------------------------------------------------
(*                                 Bounds                                   *)

\* listing keys are 1..NKeys
NKeys == 2
\* longest sync buffer that is built before a flush
MaxQueue == 3
\* flush_batches calls in one behaviour
MaxFlushes == 2

\* job cards located in one pass over a page
MaxCards == 3
\* pages loaded by one extraction_loop call
MaxPages == 2
\* (position, location) combinations of one start_extract call
MaxCombos == 1
\* largest limit passed to start_extract
MaxLimit == 2
\* candidates in one run
MaxCands == 2
\* locations of one candidate
MaxLocs == 2

Keys == 1..NKeys

-----------------------------------------------------------------------------
(*                          Text as character tuples                        *)

UpperCase ==
    <<"A","B","C","D","E","F","G","H","I","J","K","L","M","N","O","P","Q","R","S","T","U","V","W","X","Y","Z">>
LowerCase ==
    <<"a","b","c","d","e","f","g","h","i","j","k","l","m","n","o","p","q","r","s","t","u","v","w","x","y","z">>

\* str.lower() on one character
LowerChar(c) ==
    IF \E j \in DOMAIN UpperCase : UpperCase[j] = c
    THEN LowerCase[CHOOSE j \in DOMAIN UpperCase : UpperCase[j] = c]
    ELSE c

\* str(e).lower()
Lower(s) == [i \in DOMAIN s |-> LowerChar(s[i])]

\* Python's `kw in s` on strings
Contains(kw, s) ==
    \E i \in 0..(Len(s) - Len(kw)) : SubSeq(s, i + 1, i + Len(kw)) = kw

-----------------------------------------------------------------------------
(*                      APIStore  (api_store.py)                            *)

\* HTTP status codes the backend may answer with
Statuses == {200, 201, 404, 405, 422, 500}

\* Outcome of one self.client.post(...): a response with a status code, or an
\* exception (network error, timeout) raised by the call.
Response(s) == [raised |-> FALSE, status |-> s]
Raised == [raised |-> TRUE, status |-> 0]
Outcomes == {Response(s) : s \in Statuses} \cup {Raised}

\* Outcomes of an individual insert, one of each kind insert_position tells
\* apart: saved, refused by the backend, exception.
SingleOutcomes == {Response(201), Response(500), Raised}

\* job_data as built by save_job
JobData(k) == [source_job_id |-> k]

\* APIStore._prepare_payload: the fields of the payload that identify the record
_prepare_payload(job) ==
    [source |-> "linkedin", source_uid |-> job.source_job_id,
     source_job_id |-> job.source_job_id, status |-> "open"]

\* a bulk POST that carries the first record only
BulkRequest_FirstOnly(jobs_list) ==
    [endpoint |-> "positions/bulk",
     positions |-> <<_prepare_payload(jobs_list[1])>>]

\* the bulk POST of insert_positions: {"positions": payloads}
BulkRequest(jobs_list) ==
    [endpoint |-> "positions/bulk",
     positions |-> [i \in DOMAIN jobs_list |-> _prepare_payload(jobs_list[i])]]

\* the POST of insert_position
SingleRequest(job) ==
    [endpoint |-> "positions/", positions |-> <<_prepare_payload(job)>>]

\* insert_positions falls back to individual inserts on these bulk answers
FallsBack(bulk) == ~bulk.raised /\ bulk.status \in {404, 405, 422}

\* the bulk answer is a success
BulkOk(bulk) == ~bulk.raised /\ bulk.status \in {200, 201}

\* An insert_position whose exception escapes to the caller.
insert_position_Propagates(job, outcome) ==
    [request |-> SingleRequest(job), raises |-> outcome.raised]

\* APIStore.insert_position: one POST; the try/except around the whole body
\* logs every failure (bad status or exception), so nothing is raised.
insert_position(job, outcome) ==
    [request |-> SingleRequest(job), raises |-> FALSE]

\* The fallback loop of insert_positions, `for job in jobs_list:
\* self.insert_position(job)`, from index i on: the requests issued. An
\* exception escaping insert_position would end the loop (it is caught by the
\* except of insert_positions).
RECURSIVE FallbackLoop(_, _, _)
FallbackLoop(jobs_list, ind, i) ==
    IF i > Len(jobs_list) THEN <<>>
    ELSE LET r == insert_position(jobs_list[i], ind[i])
         IN  <<r.request>> \o
             (IF r.raises THEN <<>> ELSE FallbackLoop(jobs_list, ind, i + 1))

\* APIStore.insert_positions: the requests it issues, in order, when the bulk
\* call ends with `bulk` and the individual calls with ind[1], ind[2], ...
insert_positions(jobs_list, bulk, ind) ==
    IF jobs_list = <<>> THEN <<>>
    ELSE <<BulkRequest(jobs_list)>> \o
         (IF FallsBack(bulk) THEN FallbackLoop(jobs_list, ind, 1) ELSE <<>>)

\* The try body of insert_positions (lines 117-140) raises: the bulk POST
\* raised, or an exception escaped an insert_position of the fallback loop.
BodyRaises(jobs_list, bulk, ind) ==
    \/ bulk.raised
    \/ /\ FallsBack(bulk)
       /\ \E i \in DOMAIN jobs_list :
              insert_position(jobs_list[i], ind[i]).raises

\* a handler that lets the exception go on to the caller
ExceptException_Reraises(raised) == raised

\* insert_positions lines 142-143: `except Exception as e: logger.error(...)`;
\* whether an exception raised in the try body leaves insert_positions
ExceptException(raised) == FALSE

\* a flush that leaves the buffer as it was
BufferAfterFlush_Keeps(buffer, bulk) == buffer

\* flush_batches line 157: self.batch_buffer = [] after insert_positions
\* returns, whatever the outcome of the upload.
BufferAfterFlush(buffer, bulk) == <<>>

NoFlush == [pre |-> <<>>, bulk |-> Raised, ind |-> <<>>, requests |-> <<>>,
            post |-> <<>>, returned |-> FALSE]

\* a new APIStore: empty buffer
NewAPIStore ==
    /\ batch_buffer = <<>>
    /\ last_flush = NoFlush
    /\ flush_calls = 0

\* the cache file does not exist
NoFile == [access_token |-> 0, expiry_ts |-> 0, exists |-> FALSE]

\* the environment when it is not under observation
NoEnv == [SECRET_KEY |-> FALSE, WBL_API_URL |-> FALSE, API_TOKEN |-> 0,
          creds |-> FALSE]

NoCall == [op |-> "none", events |-> <<>>, returned |-> 0, raised |-> FALSE,
           expiry_before |-> 0, token_before |-> 0, first |-> FALSE]

\* no API client constructed
ClientDown ==
    /\ client_up = FALSE
    /\ api_token = 0
    /\ token_expiry = 0
    /\ api_creds = FALSE
    /\ token_file = NoFile
    /\ clock = 0
    /\ last_call = NoCall

\* no API client under observation
ClientIdle ==
    /\ client_env = NoEnv
    /\ client_up = FALSE
    /\ api_token = 0
    /\ token_expiry = 0
    /\ api_creds = FALSE
    /\ token_file = NoFile
    /\ clock = 0
    /\ last_call = NoCall

NoError == [msg |-> <<>>, location |-> 0, queue_before |-> <<>>,
            queue_after |-> <<>>, browser_after |-> "none"]

\* no run in progress (used by the specifications that drive one component)
RunIdle ==
    /\ candidates = <<>>
    /\ dist_list = <<>>
    /\ rpc = "idle"
    /\ cand_idx = 0
    /\ browser = "none"
    /\ remaining_locations = <<>>
    /\ dist_idx = 0
    /\ location_extraction_total = 0
    /\ last_error = NoError

NoExam == [no_results |-> FALSE, unreadable |-> FALSE, no_id |-> FALSE,
           seen_before |-> FALSE, easy |-> FALSE, clicked |-> FALSE,
           save_called |-> FALSE, queued |-> FALSE, seen_added |-> FALSE,
           counted |-> FALSE]

\* the candidate_id column of an empty table
NoRows == [k \in Keys |-> 0]

\* no extractor at work
ExIdle ==
    /\ epc = "idle"
    /\ limit = 0
    /\ combos_left = 0
    /\ total_extracted = 0
    /\ extracted_total = 0
    /\ jobs_per_page = 0
    /\ budget_pages = 0
    /\ iteration = 0
    /\ processed_job_ids_on_page = {}
    /\ links = 0
    /\ found_new_in_iteration = FALSE
    /\ seen_jobs = {}
    /\ extracted_jobs = {}
    /\ owners = NoRows
    /\ candidate_id = 0
    /\ counted_keys = {}
    /\ last_exam = NoExam
    /\ raised_msg = <<>>

\* no routine running
IdentityIdle == element = <<>> /\ found_id = 0
CountryIdle == job_data = <<>> /\ default_country = <<>> /\ country = <<>>
ScrollIdle == scroll_num = 0 /\ last_count = 0 /\ stable_iterations = 0
FnIdle == fpc = "idle" /\ IdentityIdle /\ CountryIdle /\ ScrollIdle

FlushInit == NewAPIStore /\ RunIdle /\ ExIdle /\ ClientIdle /\ FnIdle

\* save_job lines 409-411: self.api_store.batch_buffer.append(job_data);
\* last_flush describes the step just taken, and is cleared by any other
Queue(k) ==
    /\ Len(batch_buffer) < MaxQueue
    /\ batch_buffer' = Append(batch_buffer, JobData(k))
    /\ last_flush' = NoFlush
    /\ UNCHANGED flush_calls
    /\ UNCHANGED runVars /\ UNCHANGED exVars

\* APIStore.flush_batches on an empty buffer: logs and returns.
FlushEmpty ==
    /\ batch_buffer = <<>>
    /\ flush_calls < MaxFlushes
    /\ flush_calls' = flush_calls + 1
    /\ last_flush' = [NoFlush EXCEPT !.returned = TRUE]
    /\ UNCHANGED batch_buffer
    /\ UNCHANGED runVars /\ UNCHANGED exVars

\* APIStore.flush_batches on a non-empty buffer: one insert_positions call
\* (bulk POST answered by `bulk`, individual POSTs answered by `ind`), then
\* the assignment of line 157, which an exception leaving insert_positions
\* would skip.
Flush(bulk, ind) ==
    /\ batch_buffer # <<>>
    /\ flush_calls < MaxFlushes
    /\ flush_calls' = flush_calls + 1
    /\ LET escapes == ExceptException(BodyRaises(batch_buffer, bulk, ind))
       IN  /\ batch_buffer' = IF escapes THEN batch_buffer
                              ELSE BufferAfterFlush(batch_buffer, bulk)
           /\ last_flush' =
                  [pre |-> batch_buffer, bulk |-> bulk, ind |-> ind,
                   requests |-> insert_positions(batch_buffer, bulk, ind),
                   post |-> batch_buffer', returned |-> ~escapes]
    /\ UNCHANGED runVars /\ UNCHANGED exVars

flush_batches ==
    \/ FlushEmpty
    \/ \E bulk \in Outcomes :
          \E ind \in IF FallsBack(bulk)
                     THEN [DOMAIN batch_buffer -> SingleOutcomes]
                     ELSE {<<>>} :
             Flush(bulk, ind)

FlushNext ==
    \/ \E k \in Keys : Queue(k)
    \/ flush_batches

SpecFlush == FlushInit /\ [][FlushNext]_vars

-----------------------------------------------------------------------------
(*                 run_extraction  (daily_extractor.py)                     *)

MSG_INVALID_SESSION_RESTART ==
    <<"I","N","V","A","L","I","D","_","S","E","S","S","I","O","N","_","R","E","S","T","A","R","T">>
MSG_INVALID_SESSION_ID ==
    <<"I","n","v","a","l","i","d"," ","s","e","s","s","i","o","n"," ","i","d">>
MSG_DISCONNECTED ==
    <<"d","i","s","c","o","n","n","e","c","t","e","d">>
MSG_NO_SUCH_WINDOW ==
    <<"n","o"," ","s","u","c","h"," ","w","i","n","d","o","w">>
MSG_ELEMENT_NOT_FOUND ==
    <<"e","l","e","m","e","n","t"," ","n","o","t"," ","f","o","u","n","d">>
\* TypeError raised by a call that passes a keyword the callee does not take
MSG_TYPE_ERROR ==
    <<"_","_","i","n","i","t","_","_","(",")"," ","g","o","t"," ","a","n"," ","u","n","e","x","p","e","c","t","e","d"," ","k","e","y","w","o","r","d"," ","a","r","g","u","m","e","n","t"," ","'","m","y","s","q","l","_","s","t","o","r","e","'">>

KW_INVALID_SESSION ==
    <<"i","n","v","a","l","i","d"," ","s","e","s","s","i","o","n">>
KW_DISCONNECTED ==
    <<"d","i","s","c","o","n","n","e","c","t","e","d">>
KW_NO_SUCH_WINDOW ==
    <<"n","o"," ","s","u","c","h"," ","w","i","n","d","o","w">>
KW_BROWSER_CRASH ==
    <<"b","r","o","w","s","e","r","_","c","r","a","s","h">>
KW_RETRY_FAILED ==
    <<"r","e","t","r","y","_","f","a","i","l","e","d">>

\* Errors the browser collaborator raises (Browser(...), Session.login, any
\* driver call): the messages of the session errors and of a logical one.
BrowserErrors ==
    {MSG_INVALID_SESSION_ID, MSG_DISCONNECTED, MSG_NO_SUCH_WINDOW,
     MSG_ELEMENT_NOT_FOUND}

\* line 218: the keywords of a session error
SessionKeywords ==
    {KW_INVALID_SESSION, KW_DISCONNECTED, KW_NO_SUCH_WINDOW,
     KW_BROWSER_CRASH, KW_RETRY_FAILED}

\* A classifier that only knows the first keyword.
IsSessionError_FirstKeywordOnly(err_msg) == Contains(KW_INVALID_SESSION, err_msg)

\* line 218: any(x in err_msg for x in [...])
IsSessionError(err_msg) == \E kw \in SessionKeywords : Contains(kw, err_msg)

\* the messages of the exceptions that reach the except block of line 213
ErrorMessages ==
    BrowserErrors \cup {MSG_TYPE_ERROR, MSG_INVALID_SESSION_RESTART}

\* lines 214, 218: the messages that run_extraction takes for session errors
SessionErrors == {e \in ErrorMessages : IsSessionError(Lower(e))}

\* lines 218-231: the work queue after the except block
QueueAfterError(e, queue) ==
    IF e \in SessionErrors THEN queue ELSE Tail(queue)

\* lines 154-160: dist_list from global_settings
Ladder == <<5, 10, 25, 50, 100>>
DistList(use_ladder, max_dist) ==
    IF use_ladder THEN SelectSeq(Ladder, LAMBDA d : d <= max_dist)
    ELSE <<max_dist>>

\* values of settings.distance_miles tried (50 is the default)
DistanceMiles == {3, 10, 50}

\* line 187: the per-location limit
LocationLimit == 15

\* a bucket loop that never looks at the location's total
LocationLimitReached_Never(total) == FALSE

\* line 187: `if location_extraction_total >= 15:` at the head of each bucket
LocationLimitReached(total) == total >= LocationLimit

\* JobExtractor.__init__'s parameters (extractor.py:29)
JobExtractorParams ==
    {"browser", "candidate_id", "blacklist", "experience_level", "csv_path",
     "distance_miles", "api_store", "search_timespan"}

\* the keywords of the call at daily_extractor.py:193-199
CallKeywords == {"candidate_id", "csv_path", "distance_miles", "mysql_store"}

\* Python binds the keywords before the body runs: an unknown one is a TypeError
CallRaisesTypeError(keywords) == ~(keywords \subseteq JobExtractorParams)

\* a candidate: `disabled` is run_extract_linkedin_jobs being False/'false',
\* locations is 1..n
Candidate(disabled, n) ==
    [disabled |-> disabled, locations |-> [i \in 1..n |-> i]]

CandidateSet == {Candidate(d, n) : d \in BOOLEAN, n \in 0..MaxLocs}

CandidateLists ==
    UNION {[1..n -> CandidateSet] : n \in 0..MaxCands}

\* the scheduler has triggered run_extraction; lines 113-116
RunInit ==
    /\ candidates \in CandidateLists
    /\ dist_list \in {DistList(u, m) : u \in BOOLEAN, m \in DistanceMiles}
    /\ rpc = "start"
    /\ cand_idx = 0
    /\ browser = "none"
    /\ remaining_locations = <<>>
    /\ dist_idx = 0
    /\ location_extraction_total = 0
    /\ last_error = NoError

UnchangedSettings == UNCHANGED <<candidates, dist_list, clientVars, fnVars>>

\* lines 118-122: return when there are no candidates, else enter the loop
Start ==
    /\ rpc = "start"
    /\ IF candidates = <<>>
       THEN rpc' = "done" /\ cand_idx' = cand_idx
       ELSE rpc' = "candidate" /\ cand_idx' = 1
    /\ UNCHANGED <<browser, remaining_locations, dist_idx,
                   location_extraction_total, last_error>>
    /\ UnchangedSettings /\ UNCHANGED flushVars /\ UNCHANGED exVars

\* lines 126-129, 143-145: a disabled candidate, or one without locations
SkipCandidate ==
    /\ rpc = "candidate"
    /\ cand_idx <= Len(candidates)
    /\ candidates[cand_idx].disabled \/ candidates[cand_idx].locations = <<>>
    /\ cand_idx' = cand_idx + 1
    /\ UNCHANGED <<rpc, browser, remaining_locations, dist_idx,
                   location_extraction_total, last_error>>
    /\ UnchangedSettings /\ UNCHANGED flushVars /\ UNCHANGED exVars

\* lines 165-166: browser = None; remaining_locations = list(locations)
BeginCandidate ==
    /\ rpc = "candidate"
    /\ cand_idx <= Len(candidates)
    /\ ~candidates[cand_idx].disabled
    /\ candidates[cand_idx].locations # <<>>
    /\ browser' = "none"
    /\ remaining_locations' = candidates[cand_idx].locations
    /\ rpc' = "location"
    /\ UNCHANGED <<cand_idx, dist_idx, location_extraction_total, last_error>>
    /\ UnchangedSettings /\ UNCHANGED flushVars /\ UNCHANGED exVars

\* lines 237-238: after the last candidate: mysql_store.close(), return
EndRun ==
    /\ rpc = "candidate"
    /\ cand_idx > Len(candidates)
    /\ rpc' = "done"
    /\ UNCHANGED <<cand_idx, browser, remaining_locations, dist_idx,
                   location_extraction_total, last_error>>
    /\ UnchangedSettings /\ UNCHANGED flushVars /\ UNCHANGED exVars

\* lines 168, 233-235: the queue is empty: quit the browser, next candidate
EndCandidate ==
    /\ rpc = "location"
    /\ remaining_locations = <<>>
    /\ browser' = "none"
    /\ cand_idx' = cand_idx + 1
    /\ rpc' = "candidate"
    /\ UNCHANGED <<remaining_locations, dist_idx, location_extraction_total,
                   last_error>>
    /\ UnchangedSettings /\ UNCHANGED flushVars /\ UNCHANGED exVars

\* lines 213-231: the except block, entered with exception e: the browser is
\* quit and set to None in both branches; the location is popped unless e
\* is a session error.
HandleError(e) ==
    /\ browser' = "none"
    /\ remaining_locations' = QueueAfterError(e, remaining_locations)
    /\ rpc' = "location"
    /\ last_error' = [msg |-> e, location |-> Head(remaining_locations),
                      queue_before |-> remaining_locations,
                      queue_after |-> remaining_locations',
                      browser_after |-> browser']
    /\ UNCHANGED <<cand_idx, dist_idx, location_extraction_total>>
    /\ UnchangedSettings /\ UNCHANGED flushVars /\ UNCHANGED exVars

\* lines 169-182: a location is taken from the head of the queue; the browser
\* is created and logged in if there is none; location_extraction_total = 0
EnterLocation ==
    /\ rpc = "location"
    /\ remaining_locations # <<>>
    /\ browser' = "open"
    /\ location_extraction_total' = 0
    /\ dist_idx' = 1
    /\ rpc' = "bucket"
    /\ UNCHANGED <<cand_idx, remaining_locations, last_error>>
    /\ UnchangedSettings /\ UNCHANGED flushVars /\ UNCHANGED exVars

\* lines 172-177: Browser(...) or session.login(...) raises e
OpenBrowserFails(e) ==
    /\ rpc = "location"
    /\ remaining_locations # <<>>
    /\ browser = "none"
    /\ HandleError(e)

\* lines 185-189, 209-211: the bucket loop ends (list exhausted, or the
\* location total reached the limit): remaining_locations.pop(0)
EndBuckets ==
    /\ rpc = "bucket"
    /\ dist_idx > Len(dist_list) \/ LocationLimitReached(location_extraction_total)
    /\ remaining_locations' = Tail(remaining_locations)
    /\ rpc' = "location"
    /\ UNCHANGED <<cand_idx, browser, dist_idx, location_extraction_total,
                   last_error>>
    /\ UnchangedSettings /\ UNCHANGED flushVars /\ UNCHANGED exVars

\* lines 193-199: JobExtractor(browser, candidate_id=..., csv_path=...,
\* distance_miles=..., mysql_store=mysql_store): the call passes a keyword
\* that __init__ does not take, so it raises TypeError before an extractor
\* exists; the except block of line 213 handles it.
NewExtractorRaises ==
    /\ rpc = "bucket"
    /\ dist_idx <= Len(dist_list)
    /\ ~LocationLimitReached(location_extraction_total)
    /\ CallRaisesTypeError(CallKeywords)
    /\ HandleError(MSG_TYPE_ERROR)

\* scheduler.py lines 30-34 (run_now.py: no handler at all): KeyboardInterrupt
\* is not an Exception, so no except block of run_extraction catches it; the
\* scheduler logs "stopped by user" and the process exits.
Interrupt ==
    /\ rpc \in {"start", "candidate", "location", "bucket"}
    /\ rpc' = "exited"
    /\ UNCHANGED <<cand_idx, browser, remaining_locations, dist_idx,
                   location_extraction_total, last_error>>
    /\ UnchangedSettings /\ UNCHANGED flushVars /\ UNCHANGED exVars

Init == NewAPIStore /\ RunInit /\ ExIdle /\ ClientIdle /\ FnIdle

Next ==
    \/ Start
    \/ SkipCandidate
    \/ BeginCandidate
    \/ EndRun
    \/ EndCandidate
    \/ EnterLocation
    \/ \E e \in BrowserErrors : OpenBrowserFails(e)
    \/ EndBuckets
    \/ NewExtractorRaises
    \/ Interrupt

Spec == Init /\ [][Next]_vars

\* the environments a process is started in: SECRET_KEY and WBL_API_URL set
\* or not, API_TOKEN set or not (0), API_EMAIL and API_PASSWORD both set or
\* not
Envs ==
    [SECRET_KEY : BOOLEAN, WBL_API_URL : BOOLEAN, API_TOKEN : {0, 1},
     creds : BOOLEAN]

\* run_now.py line 6 and scheduler.py line 16 call run_extraction, which
\* begins at daily_extractor.py lines 112-116; nothing on that path imports or
\* calls run_startup_validation (startup_validation.py line 101), so the run
\* starts the same way in every environment
StartupInit ==
    /\ NewAPIStore /\ RunInit /\ ExIdle /\ FnIdle
    /\ client_env \in Envs
    /\ ClientDown

SpecStartup == StartupInit /\ [][Next]_vars

-----------------------------------------------------------------------------
(*                       Properties of run_extraction                       *)

\* some candidate of the run is enabled and has locations
SomeWork ==
    \E i \in DOMAIN candidates :
        ~candidates[i].disabled /\ candidates[i].locations # <<>>

\* C3: when a run that had work to do returns normally, the sync buffer has
\* been flushed once at the end of the run and holds no unsent record.
C3_RunEndsWithOneFlush ==
    (rpc = "done" /\ SomeWork) => (flush_calls = 1 /\ batch_buffer = <<>>)

\* C4: a user interrupt that arrives while a candidate's locations are being
\* processed is followed by one final flush attempt before the process exits.
C4_InterruptFlushes ==
    (rpc = "exited" /\ remaining_locations # <<>>) => flush_calls >= 1

\* the messages whose lower-cased text holds one of the five session keywords
HoldsSessionKeyword ==
    {e \in ErrorMessages :
        \E kw \in SessionKeywords : Contains(kw, Lower(e))}

\* C9: the except block of the location loop always discards the browser
\* handle; an error whose lower-cased description holds a session keyword
\* ("Invalid session id", disconnected, no such window) leaves the work queue
\* unchanged; any other error ("element not found") removes the current
\* location from the queue.
C9_ErrorPolicy ==
    last_error # NoError =>
        /\ last_error.browser_after = "none"
        /\ last_error.msg \in ErrorMessages
        /\ last_error.msg \in HoldsSessionKeyword
              => last_error.queue_after = last_error.queue_before
        /\ last_error.msg \notin HoldsSessionKeyword
              => last_error.queue_after = Tail(last_error.queue_before)
        /\ last_error.msg \in {MSG_INVALID_SESSION_ID, MSG_DISCONNECTED,
                                MSG_NO_SUCH_WINDOW}
              => last_error.queue_after = last_error.queue_before
        /\ last_error.msg = MSG_ELEMENT_NOT_FOUND
              => last_error.queue_after = Tail(last_error.queue_before)

\* C9 witness: after "Invalid session id" the same location is entered again
\* with a fresh browser handle.
C9_Witness ==
    /\ last_error.msg = MSG_INVALID_SESSION_ID
    /\ rpc = "bucket"
    /\ browser = "open"
    /\ remaining_locations = last_error.queue_before
    /\ Head(remaining_locations) = last_error.location

\* run_extraction keeps running: the interpreter executes the next statement
\* whenever there is one
SpecLive == Init /\ [][Next]_vars /\ WF_vars(Next)

\* C11: the per-candidate location loop terminates: whenever the loop is at
\* its head with a location to process, it eventually leaves the loop (the
\* queue empties, the candidate ends, or the run stops), even when every
\* attempt on the location fails with a transient session error.
C11_LocationLoopTerminates ==
    (rpc = "location") ~> (rpc \in {"candidate", "done", "exited"})

\* a required credential or secret is missing from the environment
MissingRequired ==
    \/ ~client_env.SECRET_KEY
    \/ ~client_env.WBL_API_URL
    \/ (client_env.API_TOKEN = 0 /\ ~client_env.creds)

\* C19: when a required credential or secret (SECRET_KEY, the API base URL,
\* or both API_TOKEN and API_EMAIL/API_PASSWORD) is missing at startup, the
\* process never enters the extraction loop of run_extraction.
C19_MissingSecretStopsStartup ==
    MissingRequired => rpc \notin {"candidate", "location", "bucket"}

\* candidate i is enabled and has locations
Runnable(i) ==
    /\ i \in DOMAIN candidates
    /\ ~candidates[i].disabled
    /\ candidates[i].locations # <<>>

\* run_extraction is at work on candidate i (lines 165-235)
Started(i) == cand_idx = i /\ rpc \in {"location", "bucket"}

\* C18: no failure while one candidate is handled stops the run for the
\* others: once run_extraction is entered, every enabled candidate with
\* locations is eventually started, unless the process is interrupted.
C18_EveryCandidateStarted ==
    \A i \in 1..MaxCands :
        (rpc = "start" /\ Runnable(i)) ~> (Started(i) \/ rpc = "exited")


-----------------------------------------------------------------------------
(*                        Properties of flush_batches                       *)

\* C1: when the bulk upload of a non-empty buffer fails in any way other than
\* a 2xx, a 404/405 or a 422 (a 5xx answer, an exception or timeout), the
\* flush leaves the buffer as it was.
C1_FailedFlushKeepsBuffer ==
    (/\ last_flush.returned
     /\ last_flush.pre # <<>>
     /\ ~BulkOk(last_flush.bulk)
     /\ ~FallsBack(last_flush.bulk))
    => last_flush.post = last_flush.pre

\* C2: when the bulk endpoint answers 404, 405 or 422 for a buffer of N
\* records, the flush issues, after the bulk POST, exactly N individual POSTs,
\* one per buffered record in buffer order, whatever the individual outcomes,
\* and the buffer ends empty.
C2_FallbackAttemptsEveryRecord ==
    (last_flush.returned /\ FallsBack(last_flush.bulk))
    => /\ Len(last_flush.requests) = 1 + Len(last_flush.pre)
       /\ last_flush.requests[1] = BulkRequest(last_flush.pre)
       /\ \A i \in DOMAIN last_flush.pre :
              last_flush.requests[i + 1] = SingleRequest(last_flush.pre[i])
       /\ last_flush.post = <<>>

\* C2 witness: buffer [1, 2], bulk answers 404, the first individual insert
\* raises, the second is refused: two individual POSTs, buffer empty.
C2_Witness ==
    /\ last_flush.returned
    /\ last_flush.pre = <<JobData(1), JobData(2)>>
    /\ last_flush.bulk = Response(404)
    /\ last_flush.ind = <<Raised, Response(500)>>
    /\ Len(last_flush.requests) = 3
    /\ batch_buffer = <<>>

\* the bulk POSTs among the requests of the last flush
BulkPosts ==
    {i \in DOMAIN last_flush.requests :
        last_flush.requests[i].endpoint = "positions/bulk"}

\* C15: a flush of a non-empty buffer issues exactly one bulk POST, the first
\* request, whose positions list holds the payload of each buffered record in
\* buffer order; when it is answered 200 or 201 no other request follows and
\* the buffer ends empty.
C15_OneBulkPost ==
    (last_flush.returned /\ last_flush.pre # <<>>)
    => /\ BulkPosts = {1}
       /\ Len(last_flush.requests[1].positions) = Len(last_flush.pre)
       /\ \A i \in DOMAIN last_flush.pre :
              last_flush.requests[1].positions[i]
                  = _prepare_payload(last_flush.pre[i])
       /\ BulkOk(last_flush.bulk)
              => (Len(last_flush.requests) = 1 /\ last_flush.post = <<>>)

\* C15 witness: buffer [2, 1], bulk answered 201: one request, buffer empty
C15_Witness ==
    /\ last_flush.returned
    /\ last_flush.pre = <<JobData(2), JobData(1)>>
    /\ last_flush.bulk = Response(201)
    /\ Len(last_flush.requests) = 1
    /\ last_flush.requests[1].positions[1].source_uid = 2
    /\ batch_buffer = <<>>

\* a step of flush_batches
FlushStep == flush_calls' # flush_calls

\* a flush of an empty buffer issues no request and leaves the buffer empty
C16_EmptyFlushIsNoOp ==
    (FlushStep /\ batch_buffer = <<>>)
    => (last_flush'.requests = <<>> /\ batch_buffer' = batch_buffer)

\* a flush that follows a flush whose bulk POST was answered 200 or 201, with
\* nothing queued in between, issues no request
C16_SecondFlushIsSilent ==
    (/\ FlushStep
     /\ last_flush.returned
     /\ last_flush.pre # <<>>
     /\ BulkOk(last_flush.bulk))
    => last_flush'.requests = <<>>

\* C16: flush idempotence. flush_batches on an empty buffer performs no
\* network call and changes nothing; a second flush_batches straight after a
\* successful one performs no network call.
C16_FlushIdempotent ==
    /\ [][C16_EmptyFlushIsNoOp]_vars
    /\ [][C16_SecondFlushIsSilent]_vars

\* C16 witness: a second flush has returned without a request
C16_Witness ==
    /\ flush_calls = 2
    /\ last_flush.returned
    /\ last_flush.pre = <<>>
    /\ last_flush.requests = <<>>
    /\ batch_buffer = <<>>

-----------------------------------------------------------------------------
(*                    JobExtractor  (extractor.py)                          *)

KW_INVALID_SESSION_RESTART ==
    <<"i","n","v","a","l","i","d","_","s","e","s","s","i","o","n","_","r","e","s","t","a","r","t">>
KW_INVALID_SESSION_ID ==
    <<"i","n","v","a","l","i","d"," ","s","e","s","s","i","o","n"," ","i","d">>
KW_STALE ==
    <<"s","t","a","l","e">>
MSG_STALE ==
    <<"s","t","a","l","e"," ","e","l","e","m","e","n","t"," ","r","e","f","e","r","e","n","c","e">>

\* start_extract's default limit (line 63)
DefaultLimit == 15
\* the page size and the offset ceiling of extraction_loop (lines 248-256)
PageSize == 25
OffsetCeiling == 1000
\* `while iteration < 50` (line 170)
MaxIterations == 50

\* What reading one located element yields. id: the result of
\* JobIdentity.extract_job_id, 0 for None. easy: "Easy Apply" in link.text.
\* fault: where an access to the element raises, if anywhere:
\*   "unreadable"   link.text raises at line 186
\*   "stale_early"  a stale-element exception at lines 190-193
\*   "error_early"  another exception at lines 190-193
\*   "stale_click"  the click of line 217 raises a stale-element exception
\*   "error_click"  the click of line 217 raises another exception
Faults == {"none", "unreadable", "stale_early", "error_early",
           "stale_click", "error_click"}
Elems == [id : 0..NKeys, easy : BOOLEAN, fault : Faults]

\* Outcomes of save_job, which catches every exception of its body:
\*   "ok"          table row written, record appended to the buffer
\*   "failed"      an exception before the INSERT (element.text, the INSERT)
\*   "failed_late" an exception after the commit and before the append
\*                 (the CSV write of lines 395-398)
SaveOutcomes == {"ok", "failed", "failed_late"}

\* The pairs (element, save_job outcome) tried for one element: one of each
\* behaviour. The fields that the code does not read in a case (the id and
\* the text of an element whose access raises early, the click fault of an
\* Easy Apply card, the outcome of a save_job that is not called) are fixed.
ElemCases ==
    {c \in [elem : Elems, save : SaveOutcomes] :
        /\ c.elem.fault \in {"unreadable", "stale_early", "error_early"}
              => (c.elem.id = 0 /\ ~c.elem.easy)
        /\ c.elem.id = 0 => (~c.elem.easy /\ c.elem.fault \notin {"stale_click", "error_click"})
        /\ c.elem.easy => c.elem.fault = "none"
        /\ (c.elem.fault # "none" \/ c.elem.easy \/ c.elem.id = 0) => c.save = "ok"}

\* errors raised by the browser while the extractor drives it
ExtractorErrors ==
    {MSG_INVALID_SESSION_ID, MSG_DISCONNECTED, MSG_ELEMENT_NOT_FOUND}

\* the message of the exception a fault raises
FaultMsg(fault) ==
    IF fault \in {"stale_early", "stale_click"} THEN MSG_STALE
    ELSE MSG_ELEMENT_NOT_FOUND

\* line 227: if "stale" in str(e).lower(): break, else continue
BreaksPass(e) == Contains(KW_STALE, Lower(e))
\* the faults whose exception ends the pass
BreakingFaults == {f \in Faults \ {"none", "unreadable"} : BreaksPass(FaultMsg(f))}

\* an extractor that never tests the seen set
SkipsSeen_Never(job_id, seen) == FALSE

\* line 204: if job_id in self.seen_jobs: continue
SkipsSeen(job_id, seen) == job_id \in seen

\* line 200: if job_id in processed_job_ids_on_page: continue
SkipsOnPage(job_id, processed) == job_id \in processed

\* an extractor that forgets the keys it has handled
MarkSeen_Forgets(job_id, seen) == seen

\* lines 214, 222: self.seen_jobs.add(job_id)
MarkSeen(job_id, seen) == seen \cup {job_id}

\* a limit test that lets one more record through
LimitReached_OffByOne(count, lim) == count > lim

\* lines 171, 183, 230, 238: extracted_total >= limit
LimitReached(count, lim) == count >= lim

\* extraction_loop's limit parameter: remaining_limit of line 83
LoopLimit == limit - total_extracted

\* line 262: the errors extraction_loop raises again
ReRaised(e) ==
    \/ Contains(KW_INVALID_SESSION_RESTART, Lower(e))
    \/ Contains(KW_INVALID_SESSION_ID, Lower(e))
    \/ Contains(KW_DISCONNECTED, Lower(e))
\* the errors of the page loop that are raised again
ReRaisedErrors ==
    {e \in ExtractorErrors \cup {MSG_INVALID_SESSION_RESTART} : ReRaised(e)}

\* The tables an extractor is constructed on: the code never compares two
\* keys but for equality, so a table of n rows is taken to hold keys 1..n
Tables == {1..n : n \in 0..NKeys}

\* an extractor that starts with an empty seen set whatever the table holds
_load_seen_jobs_Nothing(table, own, cand, loads) == {}

\* _load_seen_jobs lines 54-61: SELECT job_id FROM extracted_jobs, the
\* job_id of every row whatever its candidate_id; the empty set when the
\* query fails
_load_seen_jobs(table, own, cand, loads) == IF loads THEN table ELSE {}

\* JobExtractor.__init__ lines 29-40, for candidate 1 on a table of its own
\* rows: seen_jobs is loaded from the extracted_jobs table, or is empty when
\* the query fails; the failing query is tried on the table that holds every
\* key
ExConstructed ==
    /\ extracted_jobs \in Tables
    /\ candidate_id = 1
    /\ owners = [k \in Keys |-> IF k \in extracted_jobs THEN 1 ELSE 0]
    /\ \E loads \in BOOLEAN :
          /\ ~loads => extracted_jobs = Keys
          /\ seen_jobs = _load_seen_jobs(extracted_jobs, owners, candidate_id,
                                         loads)
    /\ epc = "idle"
    /\ limit = 0
    /\ combos_left = 0
    /\ total_extracted = 0
    /\ extracted_total = 0
    /\ jobs_per_page = 0
    /\ iteration = 0
    /\ processed_job_ids_on_page = {}
    /\ links = 0
    /\ found_new_in_iteration = FALSE
    /\ counted_keys = {}
    /\ last_exam = NoExam
    /\ raised_msg = <<>>

\* the extractor under a time budget of MaxPages pages
ExInit == ExConstructed /\ budget_pages = MaxPages

\* the locals of a pass, and of a page, when the pass or page is not running
NoPass ==
    /\ links' = 0
    /\ found_new_in_iteration' = FALSE
NoPage ==
    /\ NoPass
    /\ iteration' = 0
    /\ processed_job_ids_on_page' = {}
UnchangedPass ==
    UNCHANGED <<iteration, processed_job_ids_on_page, links,
                found_new_in_iteration>>
\* last_exam describes the step just taken: it is cleared by every step
\* that examines no element
StoresKept ==
    UNCHANGED <<seen_jobs, extracted_jobs, owners, candidate_id,
                budget_pages, counted_keys, batch_buffer, last_flush,
                flush_calls>>
UnchangedStores ==
    /\ StoresKept
    /\ last_exam' = NoExam

\* start_extract lines 63-76: nc combinations, limit L, total_extracted = 0
StartExtract(L, nc) ==
    /\ epc = "idle"
    /\ limit' = L
    /\ combos_left' = nc
    /\ total_extracted' = 0
    /\ epc' = "combo"
    /\ UNCHANGED <<extracted_total, jobs_per_page, raised_msg>>
    /\ UnchangedPass /\ UnchangedStores /\ UNCHANGED runVars

\* start_extract lines 78-86 and extraction_loop lines 96-104: the next
\* combination is taken, extraction_loop is called with the remaining limit
\* and loads the first page
NextCombo ==
    /\ epc = "combo"
    /\ combos_left > 0
    /\ LoopLimit > 0
    /\ combos_left' = combos_left - 1
    /\ jobs_per_page' = 0
    /\ extracted_total' = 0
    /\ epc' = "page"
    /\ UNCHANGED <<limit, total_extracted, raised_msg>>
    /\ UnchangedPass /\ UnchangedStores /\ UNCHANGED runVars

\* start_extract lines 78, 84, 93: no combination left, or no limit left
CombosDone ==
    /\ epc = "combo"
    /\ combos_left = 0 \/ LoopLimit <= 0
    /\ epc' = "returned"
    /\ UNCHANGED <<limit, combos_left, total_extracted, extracted_total,
                   jobs_per_page, raised_msg>>
    /\ UnchangedPass /\ UnchangedStores /\ UNCHANGED runVars

\* extraction_loop line 266 and start_extract lines 86-89: the loop returns
\* extracted_total; it is added to the total, and the total ends the combos
ReturnFromLoop ==
    /\ total_extracted' = total_extracted + extracted_total
    /\ extracted_total' = 0
    /\ epc' = IF total_extracted' >= limit THEN "returned" ELSE "combo"
    /\ jobs_per_page' = 0
    /\ UNCHANGED <<limit, combos_left, raised_msg>>

\* an exception leaves extraction_loop and, through the try/finally of
\* start_extract (lines 77-91), start_extract
RaiseFromLoop(e) ==
    /\ raised_msg' = e
    /\ epc' = "raised"
    /\ jobs_per_page' = 0
    /\ UNCHANGED <<limit, combos_left, total_extracted, extracted_total>>

\* lines 260-264: the except of the page loop: session errors are raised
\* again, any other error ends the loop
LoopExcept(e) ==
    IF e \in ReRaisedErrors THEN RaiseFromLoop(e) ELSE ReturnFromLoop

\* a page loop without a time budget
TimeLeft_Unbounded == TRUE

\* the page loop goes on only while the time budget lasts; the budget is
\* taken to be spent once budget_pages pages were loaded
TimeLeft == jobs_per_page < budget_pages * PageSize

\* line 106: the time budget is spent
TimeUp ==
    /\ epc = "page"
    /\ ReturnFromLoop
    /\ UnchangedPass /\ UnchangedStores /\ UNCHANGED runVars

\* lines 113-117: the health check finds the browser handle dead
BrowserDead ==
    /\ epc = "page"
    /\ TimeLeft
    /\ LoopExcept(MSG_INVALID_SESSION_RESTART)
    /\ UnchangedPass /\ UnchangedStores /\ UNCHANGED runVars

\* lines 119-163: reading the page source or scrolling raises e
PageError(e) ==
    /\ epc = "page"
    /\ TimeLeft
    /\ LoopExcept(e)
    /\ UnchangedPass /\ UnchangedStores /\ UNCHANGED runVars

\* the page that reports no results is scrolled and extracted all the same
NoResults_Scrolls ==
    /\ epc = "page"
    /\ TimeLeft
    /\ processed_job_ids_on_page' = {}
    /\ iteration' = 0
    /\ epc' = "pass"
    /\ UNCHANGED <<limit, combos_left, total_extracted, extracted_total,
                   jobs_per_page, raised_msg, links,
                   found_new_in_iteration>>
    /\ StoresKept /\ last_exam' = [NoExam EXCEPT !.no_results = TRUE]
    /\ UNCHANGED runVars

\* lines 119-121: the page source holds "No matching jobs found": break
NoResults ==
    /\ epc = "page"
    /\ TimeLeft
    /\ ReturnFromLoop
    /\ UnchangedPass
    /\ StoresKept /\ last_exam' = [NoExam EXCEPT !.no_results = TRUE]
    /\ UNCHANGED runVars

\* lines 123-168: the scroll routine ends; extraction of the page starts
Scrolled ==
    /\ epc = "page"
    /\ TimeLeft
    /\ processed_job_ids_on_page' = {}
    /\ iteration' = 0
    /\ epc' = "pass"
    /\ UNCHANGED <<limit, combos_left, total_extracted, extracted_total,
                   jobs_per_page, raised_msg, links,
                   found_new_in_iteration>>
    /\ UnchangedStores /\ UNCHANGED runVars

\* a page that is scanned again and again
PassesLeft_Unbounded(i) == TRUE

\* line 170: while iteration < 50
PassesLeft(i) == i < MaxIterations

\* lines 170-180: the head of a pass: n is the number of elements located
\* (0: is_present fails, or nothing is returned)
PassHead(n) ==
    /\ epc = "pass"
    /\ IF LimitReached(extracted_total, LoopLimit) \/ ~PassesLeft(iteration)
       THEN /\ epc' = "after"
            /\ NoPage
       ELSE IF n = 0
       THEN /\ epc' = "after"
            /\ NoPage
       ELSE /\ iteration' = iteration + 1
            /\ links' = n
            /\ found_new_in_iteration' = FALSE
            /\ epc' = "link"
            /\ UNCHANGED processed_job_ids_on_page
    /\ UNCHANGED <<limit, combos_left, total_extracted, extracted_total,
                   jobs_per_page, raised_msg>>
    /\ UnchangedStores /\ UNCHANGED runVars

\* lines 230-233: the end of a pass
EndPass ==
    /\ epc = "link"
    /\ links = 0
    /\ IF ~found_new_in_iteration \/ LimitReached(extracted_total, LoopLimit)
       THEN epc' = "after" /\ NoPage
       ELSE /\ epc' = "pass"
            /\ NoPass
            /\ UNCHANGED <<iteration, processed_job_ids_on_page>>
    /\ UNCHANGED <<limit, combos_left, total_extracted, extracted_total,
                   jobs_per_page, raised_msg>>
    /\ UnchangedStores /\ UNCHANGED runVars

\* JobExtractor.save_job called for job_id, ending as `save`: the table
\* after it, and whether the record was appended to the buffer
SaveJobTable(job_id, save, table) ==
    IF save \in {"ok", "failed_late"} THEN table \cup {job_id} ELSE table
SaveJobQueues(save) == save = "ok"

\* lines 388-391: INSERT OR REPLACE writes the row of job_id with the
\* candidate_id of the extractor
SaveJobOwners(job_id, save, cand, own) ==
    IF save \in {"ok", "failed_late"} THEN [own EXCEPT ![job_id] = cand]
    ELSE own

\* an element whose text cannot be read is taken like any other
TextFails_Ignored(fault) == FALSE

\* lines 185-187: `_ = link.text` raises, the bare except breaks
TextFails(fault) == fault = "unreadable"

\* an element without a key is taken as one with the key None
NoKey_Ignored(id) == FALSE

\* lines 196-198: if not job_id: continue
NoKey(id) == id = 0

\* every new element is clicked, fast-apply or not
Clicks_Always(new, easy) == new

\* lines 211-217: a new element is clicked unless "Easy Apply" is in its text
Clicks(new, easy) == new /\ ~easy

\* the key goes to the seen set as soon as the element is found new
AddsToSeen_BeforeClick(new, easy, clickOk) == new

\* lines 214 and 222: seen_jobs.add(job_id) for a fast-apply element, and
\* after the click and save_job returned for any other
AddsToSeen(new, easy, clickOk) == (new /\ easy) \/ clickOk

\* lines 182-228: one turn of `for link in links` on the element elem; a
\* `break` leaves no element to take. The fields of the element that the
\* code does not read on the path taken are fixed.
ProcessLink(elem, save) ==
    /\ epc = "link"
    /\ links > 0
    /\ LET lim     == LimitReached(extracted_total, LoopLimit)
           early   == elem.fault \in {"unreadable", "stale_early", "error_early"}
           read    == ~lim /\ ~early
           id      == elem.id
           skip    == \/ NoKey(id)
                      \/ SkipsOnPage(id, processed_job_ids_on_page)
                      \/ SkipsSeen(id, seen_jobs)
           new     == read /\ ~skip
           click   == Clicks(new, elem.easy)
           clickOk == click /\ elem.fault = "none"
           added   == AddsToSeen(new, elem.easy, clickOk)
           brk     == \/ lim
                      \/ TextFails(elem.fault)
                      \/ early /\ elem.fault \in BreakingFaults
                      \/ click /\ ~clickOk /\ elem.fault \in BreakingFaults
       IN
       /\ lim => id = 0
       /\ (lim \/ (read /\ skip))
             => (~elem.easy /\ elem.fault = "none" /\ save = "ok")
       /\ links' = IF brk THEN 0 ELSE links - 1
       /\ found_new_in_iteration' = (found_new_in_iteration \/ new)
       /\ processed_job_ids_on_page' =
             IF new THEN processed_job_ids_on_page \cup {id}
             ELSE processed_job_ids_on_page
       /\ seen_jobs' = IF added THEN MarkSeen(id, seen_jobs) ELSE seen_jobs
       /\ extracted_jobs' = IF clickOk
                            THEN SaveJobTable(id, save, extracted_jobs)
                            ELSE extracted_jobs
       /\ owners' = IF clickOk
                    THEN SaveJobOwners(id, save, candidate_id, owners)
                    ELSE owners
       /\ batch_buffer' = IF clickOk /\ SaveJobQueues(save)
                          THEN Append(batch_buffer, JobData(id))
                          ELSE batch_buffer
       /\ extracted_total' = IF clickOk THEN extracted_total + 1
                             ELSE extracted_total
       /\ counted_keys' = IF clickOk THEN counted_keys \cup {id}
                          ELSE counted_keys
       /\ last_exam' = [no_results |-> FALSE,
                        unreadable |-> ~lim /\ elem.fault = "unreadable",
                        no_id |-> read /\ id = 0,
                        seen_before |-> read /\ id \in seen_jobs,
                        easy |-> new /\ elem.easy,
                        clicked |-> click,
                        save_called |-> clickOk,
                        queued |-> clickOk /\ SaveJobQueues(save),
                        seen_added |-> added,
                        counted |-> clickOk]
    /\ UNCHANGED <<epc, limit, combos_left, total_extracted, jobs_per_page,
                   iteration, raised_msg, last_flush, flush_calls,
                   candidate_id, budget_pages>>
    /\ UNCHANGED runVars

\* the offset advanced twice in one step
NextOffset_Twice(offset) == offset + 2 * PageSize

\* lines 248 and 255: jobs_per_page += 25, on either path
NextOffset(offset) == offset + PageSize

\* lines 238-258: after the page: return when the limit is reached, else go
\* to the next page by the Next button (next_button) or by URL offset
AfterPage(next_button) ==
    /\ epc = "after"
    /\ IF LimitReached(extracted_total, LoopLimit)
       THEN ReturnFromLoop
       ELSE IF ~next_button /\ NextOffset(jobs_per_page) >= OffsetCeiling
       THEN ReturnFromLoop
       ELSE /\ jobs_per_page' = NextOffset(jobs_per_page)
            /\ epc' = "page"
            /\ UNCHANGED <<limit, combos_left, total_extracted,
                           extracted_total, raised_msg>>
    /\ UnchangedPass /\ UnchangedStores /\ UNCHANGED runVars

\* lines 254-264: the URL navigation to the next page raises e
PaginateFails(e) ==
    /\ epc = "after"
    /\ ~LimitReached(extracted_total, LoopLimit)
    /\ NextOffset(jobs_per_page) < OffsetCeiling
    /\ LoopExcept(e)
    /\ UnchangedPass /\ UnchangedStores /\ UNCHANGED runVars

\* line 101: the first navigation of extraction_loop raises e; the call is
\* outside the try of the page loop, so e leaves extraction_loop
NavigateFails(e) ==
    /\ epc = "combo"
    /\ combos_left > 0
    /\ LoopLimit > 0
    /\ RaiseFromLoop(e)
    /\ UnchangedPass /\ UnchangedStores /\ UNCHANGED runVars

ExtractInit == NewAPIStore /\ RunIdle /\ ExInit /\ ClientIdle /\ FnIdle

ExtractNext ==
    \/ \E L \in 0..MaxLimit, nc \in 1..MaxCombos : StartExtract(L, nc)
    \/ NextCombo
    \/ CombosDone
    \/ \E e \in ExtractorErrors : NavigateFails(e)
    \/ TimeUp
    \/ BrowserDead
    \/ \E e \in ExtractorErrors : PageError(e)
    \/ NoResults
    \/ Scrolled
    \/ \E n \in 0..MaxCards : PassHead(n)
    \/ EndPass
    \/ \E c \in ElemCases : ProcessLink(c.elem, c.save)
    \/ \E next_button \in BOOLEAN : AfterPage(next_button)
    \/ \E e \in ExtractorErrors : PaginateFails(e)

SpecExtract == ExtractInit /\ [][ExtractNext]_vars

-----------------------------------------------------------------------------
(*                       Properties of JobExtractor                        *)

\* the running count of start_extract: what it has added up so far plus the
\* counter of the extraction_loop call in progress
RunningCount == total_extracted + extracted_total

\* C5: when a pass examines an element whose key is already in the seen
\* set, it does not click the element, does not call save_job, queues no
\* record and does not add the key to the seen set again.
C5_SeenKeyUntouched ==
    last_exam.seen_before =>
        /\ ~last_exam.clicked
        /\ ~last_exam.save_called
        /\ ~last_exam.queued
        /\ ~last_exam.seen_added
        /\ ~last_exam.counted

\* C5 witness: with a record already saved in this pass, an element whose
\* key is in the seen set has just been examined and left alone.
C5_Witness ==
    /\ epc = "link"
    /\ last_exam.seen_before
    /\ ~last_exam.clicked
    /\ seen_jobs # {}
    /\ batch_buffer # <<>>

\* C6: a key that appears several times (on one page, in repeated passes,
\* on later pages) produces at most one record and is counted at most
\* once: the buffer never holds two records of one key, and the count
\* equals the number of distinct keys counted.
C6_OneRecordPerKey ==
    /\ \A i, j \in DOMAIN batch_buffer :
           batch_buffer[i] = batch_buffer[j] => i = j
    /\ RunningCount = Cardinality(counted_keys)
    /\ Len(batch_buffer) <= Cardinality(counted_keys)
    /\ \A i \in DOMAIN batch_buffer :
           batch_buffer[i].source_job_id \in counted_keys

\* C6 witness: the scenario of a seen set {1} and a first page on which key
\* 2 is eligible and a seen key comes after it: at the end of the first
\* pass exactly one record (key 2) is in the buffer, key 1 was never
\* counted, and the seen set is {1, 2}.
C6_Witness ==
    /\ epc = "link"
    /\ links = 0
    /\ iteration = 1
    /\ jobs_per_page = 0
    /\ limit = 2
    /\ last_exam.seen_before
    /\ processed_job_ids_on_page = {2}
    /\ counted_keys = {2}
    /\ batch_buffer = <<JobData(2)>>
    /\ seen_jobs = {1, 2}
    /\ RunningCount = 1

StartExtractErrors == ReRaisedErrors \cup ExtractorErrors

\* every error that leaves start_extract is one of StartExtractErrors, and
\* the dead-handle error of the health check is among them
RaisedIsStartExtractError ==
    epc = "raised" => raised_msg \in StartExtractErrors

-----------------------------------------------------------------------------
(*      run_extraction with its extractors  (daily_extractor.py 185-231)    *)

\* lines 201-207: the body of the bucket loop after the JobExtractor call,
\* for a JobExtractor whose constructor accepts the call. start_extract is
\* called without a limit, so with limit = DefaultLimit, and returns
\* newly_found (at most its limit); the total and the bucket advance.
BucketExtracts(newly_found) ==
    /\ rpc = "bucket"
    /\ dist_idx <= Len(dist_list)
    /\ ~LocationLimitReached(location_extraction_total)
    /\ newly_found <= DefaultLimit
    /\ location_extraction_total' = location_extraction_total + newly_found
    /\ dist_idx' = dist_idx + 1
    /\ UNCHANGED <<rpc, cand_idx, browser, remaining_locations, last_error>>
    /\ UnchangedSettings /\ UNCHANGED flushVars /\ UNCHANGED exVars

\* lines 206, 213: start_extract raises e; the except block handles it
BucketRaises(e) ==
    /\ rpc = "bucket"
    /\ dist_idx <= Len(dist_list)
    /\ ~LocationLimitReached(location_extraction_total)
    /\ HandleError(e)

LocationNext ==
    \/ Start
    \/ SkipCandidate
    \/ BeginCandidate
    \/ EndRun
    \/ EndCandidate
    \/ EnterLocation
    \/ \E e \in BrowserErrors : OpenBrowserFails(e)
    \/ EndBuckets
    \/ \E newly_found \in 0..DefaultLimit : BucketExtracts(newly_found)
    \/ \E e \in StartExtractErrors : BucketRaises(e)
    \/ Interrupt

SpecLocation == Init /\ [][LocationNext]_vars

\* run_extraction for one candidate, whatever its settings
LadderInit ==
    /\ Init
    /\ Len(candidates) = 1

SpecLadder == LadderInit /\ [][LocationNext]_vars

\* the radii of the ladder
LadderValues == {Ladder[i] : i \in DOMAIN Ladder}

\* a step of the bucket loop that visits the bucket dist_list[dist_idx]:
\* start_extract is called for it and returns or raises
VisitsBucket ==
    /\ rpc = "bucket"
    /\ \/ dist_idx' # dist_idx
       \/ last_error' # last_error

PopsLocation ==
    /\ remaining_locations # <<>>
    /\ remaining_locations' = Tail(remaining_locations)

\* a step of the except block that handles an error raised by the browser:
\* by Browser(...), by the login, or by start_extract while it drives it
HandlesBrowserError ==
    /\ last_error' # last_error
    /\ last_error'.msg \in BrowserErrors \cup StartExtractErrors

\* C37: when the browser raises no error, a location is removed from the
\* work queue only after start_extract was invoked for it: the bucket loop
\* of the pass has gone past its first bucket, whose start_extract call
\* returned.
C37_LocationExtractedBeforeRemoval ==
    [][(PopsLocation /\ ~HandlesBrowserError) => dist_idx > 1]_vars

\* C37, the state the claim excludes: the except block has removed the only
\* location of the candidate for the TypeError of the JobExtractor call of
\* the first bucket, before any start_extract call
C37_LocationDroppedUnvisited ==
    /\ last_error.msg = MSG_TYPE_ERROR
    /\ last_error.queue_before = <<1>>
    /\ last_error.queue_after = <<>>
    /\ remaining_locations = <<>>
    /\ dist_idx = 1
    /\ dist_list # <<>>
    /\ location_extraction_total = 0
    /\ rpc = "location"

-----------------------------------------------------------------------------
(*                    BaseAPIClient  (base_client.py)                       *)

\* the access tokens of login responses are 1..NTokens; 0 stands for the
\* empty string
NTokens == 1
\* the clock stops advancing at MaxClock
MaxClock == 2

Tokens == 1..NTokens

\* line 209: the lookahead, in seconds, of the pre-emptive refresh
Lookahead == 30

\* seconds by which the clock advances between two calls
TickSteps == {1, 2}

\* values of expires_in in a login response that has one
ExpiresIn == {1, 31}

\* HTTP status codes of the target endpoint tried
ClientStatuses == {200, 401, 403}

\* what requests.request does (lines 214, 220): answers with a status, or
\* raises (connection error, timeout)
Reply(status) == [raised |-> FALSE, status |-> status]
ReplyRaised == [raised |-> TRUE, status |-> 0]
Replies == {Reply(st) : st \in ClientStatuses} \cup {ReplyRaised}

\* what the login POST of _authenticate does (lines 105-120): raises, answers
\* with a status other than 200, or answers 200 with a body that may hold
\* access_token (0: it does not) and expires_in (has_expiry)
Login(raised, status, token, has_expiry, expires_in) ==
    [raised |-> raised, status |-> status, access_token |-> token,
     has_expiry |-> has_expiry, expires_in |-> expires_in]
LoginRaised == Login(TRUE, 0, 0, FALSE, 0)
LoginRefused == Login(FALSE, 401, 0, FALSE, 0)
LoginOutcomes ==
    {LoginRaised, LoginRefused, Login(FALSE, 200, 0, FALSE, 0)}
    \cup {Login(FALSE, 200, t, FALSE, 0) : t \in Tokens}
    \cup {Login(FALSE, 200, t, TRUE, x) : t \in Tokens, x \in ExpiresIn}

\* the events a call leaves on the network, in order
\* a login POST: whether _authenticate returned True after it, the expiry_ts
\* it computed (0: None) and whether the cache file was written; a request
\* of the endpoint: the token of its Authorization header and the status of
\* its response (0: requests.request raised)
LoginEvent(au) ==
    [kind |-> "login", token |-> 0, status |-> 0, ok |-> au.ok,
     expiry_ts |-> au.expiry_ts, saved |-> au.saved]
RequestEvent(token, reply) ==
    [kind |-> "request", token |-> token, status |-> reply.status,
     ok |-> FALSE, expiry_ts |-> 0, saved |-> FALSE]

\* a cache writer that drops the expiry
_save_token_NoExpiry(file, token, expiry_ts, written) ==
    IF written
    THEN [access_token |-> token, expiry_ts |-> 0, exists |-> TRUE]
    ELSE file

\* _save_token lines 175-184: the payload holds expiry_ts only when it is
\* truthy (0 stands for both None and 0); when the write raises (written is
\* FALSE) a warning is logged and the file is taken to be as it was
_save_token(file, token, expiry_ts, written) ==
    IF written
    THEN [access_token |-> token, expiry_ts |-> expiry_ts, exists |-> TRUE]
    ELSE file

\* the client fields and the cache file that _authenticate works on
ClientState(token, expiry, file) ==
    [api_token |-> token, token_expiry |-> expiry, token_file |-> file]

\* _authenticate lines 91-137 on state st at time now: out is what the
\* login POST does, written whether the cache write succeeds. The result
\* holds the state after, whether a login POST was made (posted) and the
\* return value (ok).
_authenticate(st, creds, now, out, written) ==
    IF ~creds
    THEN [st |-> st, posted |-> FALSE, ok |-> FALSE, expiry_ts |-> 0,
          saved |-> FALSE]
    ELSE IF out.raised \/ out.status # 200 \/ out.access_token = 0
    THEN [st |-> st, posted |-> TRUE, ok |-> FALSE, expiry_ts |-> 0,
          saved |-> FALSE]
    ELSE LET expiry_ts == IF out.has_expiry THEN now + out.expires_in ELSE 0
         IN [st |-> ClientState(
                        out.access_token,
                        IF out.has_expiry THEN expiry_ts ELSE st.token_expiry,
                        _save_token(st.token_file, out.access_token,
                                    expiry_ts, written)),
             posted |-> TRUE, ok |-> TRUE, expiry_ts |-> expiry_ts,
             saved |-> written]

\* _load_saved_token lines 186-204 in a client whose token is `token` (from
\* the environment) and whose token_expiry is None
_load_saved_token(token, file, now) ==
    IF ~file.exists \/ file.access_token = 0
    THEN ClientState(token, 0, file)
    ELSE IF file.expiry_ts # 0 /\ file.expiry_ts < now
    THEN ClientState(token, 0, file)
    ELSE ClientState(file.access_token, file.expiry_ts, file)

\* a refresh test without lookahead
NeedsRefresh_NoLookahead(token, expiry, now) ==
    token = 0 \/ (expiry # 0 /\ now >= expiry)

\* line 209: not self.api_token or (self.token_expiry and
\* int(time.time()) + 30 >= int(self.token_expiry))
NeedsRefresh(token, expiry, now) ==
    token = 0 \/ (expiry # 0 /\ now + Lookahead >= expiry)

\* line 216: response.status_code in [401, 403]
AuthFailed(reply) == reply.status \in {401, 403}

\* a client that re-sends whether or not the re-authentication succeeded
Resends_Always(auth_ok) == TRUE

\* line 218: if self._authenticate(): ... re-send
Resends(auth_ok) == auth_ok

\* the token of the environment variable API_TOKEN, when it is set
EnvToken == NTokens + 1

\* a process starts: its environment holds SECRET_KEY and WBL_API_URL, holds
\* API_TOKEN or not and the login credentials or not; no cache file yet. The process has no terminal
\* (sys.stdin.isatty() is false, as under the scheduler), so lines 69-77 never
\* prompt.
ClientStart ==
    /\ client_env \in [SECRET_KEY : {TRUE}, WBL_API_URL : {TRUE},
                       API_TOKEN : {0, EnvToken}, creds : BOOLEAN]
    /\ client_up = FALSE
    /\ api_token = 0
    /\ token_expiry = 0
    /\ api_creds = FALSE
    /\ token_file = NoFile
    /\ clock = 0
    /\ last_call = NoCall

NotAuthenticated(st) ==
    [st |-> st, posted |-> FALSE, ok |-> FALSE, expiry_ts |-> 0,
     saved |-> FALSE]

\* the inputs a step reads: what a login does matters only when a login is
\* posted, whether the cache file can be written only when a login succeeded
OutcomesRead(posts) == IF posts THEN LoginOutcomes ELSE {LoginRaised}

WritesRead(out) ==
    IF out.raised \/ out.status # 200 \/ out.access_token = 0
    THEN {TRUE}
    ELSE BOOLEAN

RepliesRead(sends) == IF sends THEN Replies ELSE {ReplyRaised}

\* BaseAPIClient.__init__ lines 22-77, in a new process of the same
\* environment: token and credentials from the environment (lines 32-36),
\* then the cached token (lines 58-63)
Construct ==
    LET ld == _load_saved_token(client_env.API_TOKEN, token_file, clock) IN
    /\ last_call = NoCall
    /\ client_up' = TRUE
    /\ api_creds' = client_env.creds
    /\ api_token' = ld.api_token
    /\ token_expiry' = ld.token_expiry
    /\ last_call' = [op |-> "init", events |-> <<>>,
                     returned |-> 0, raised |-> FALSE,
                     expiry_before |-> token_file.expiry_ts,
                     token_before |-> token_file.access_token,
                     first |-> FALSE]
    /\ UNCHANGED <<client_env, clock, token_file>>
    /\ UNCHANGED <<flushVars, runOwnVars, exVars, fnVars>>

\* _request_with_retry lines 206-222 (get, post, put, delete): out1 and
\* written1 are what the pre-emptive login does, first what the endpoint
\* does, out2 and written2 what the login after a 401/403 does, second what
\* the endpoint does when the request is re-sent. An exception of
\* requests.request leaves the call.
Call ==
    LET s0  == ClientState(api_token, token_expiry, token_file)
        pre == NeedsRefresh(api_token, token_expiry, clock) /\ api_creds
    IN
    /\ client_up
    /\ last_call.op \in {"none", "init"}
    /\ \E out1 \in OutcomesRead(pre) : \E written1 \in WritesRead(out1) :
       \E first \in Replies :
         LET a1    == IF pre
                      THEN _authenticate(s0, api_creds, clock, out1, written1)
                      ELSE NotAuthenticated(s0)
             retry == ~first.raised /\ AuthFailed(first) /\ api_creds
         IN
         \E out2 \in OutcomesRead(retry) : \E written2 \in WritesRead(out2) :
           LET a2     == IF retry
                         THEN _authenticate(a1.st, api_creds, clock, out2,
                                            written2)
                         ELSE NotAuthenticated(a1.st)
               resend == retry /\ Resends(a2.ok)
           IN
           \E second \in RepliesRead(resend) :
             LET final == IF resend THEN second ELSE first IN
             /\ api_token' = a2.st.api_token
             /\ token_expiry' = a2.st.token_expiry
             /\ token_file' = a2.st.token_file
             /\ last_call' =
                  [op |-> "request",
                   events |->
                      (IF a1.posted THEN <<LoginEvent(a1)>> ELSE <<>>)
                      \o <<RequestEvent(a1.st.api_token, first)>>
                      \o (IF a2.posted THEN <<LoginEvent(a2)>> ELSE <<>>)
                      \o (IF resend
                          THEN <<RequestEvent(a2.st.api_token, second)>>
                          ELSE <<>>),
                   returned |-> final.status, raised |-> final.raised,
                   expiry_before |-> token_expiry,
                   token_before |-> api_token,
                   first |-> last_call.op = "init"]
    /\ UNCHANGED <<client_env, client_up, api_creds, clock>>
    /\ UNCHANGED <<flushVars, runOwnVars, exVars, fnVars>>

\* the caller takes what the constructor or the call left; the next call
\* starts after that, or right after the constructor
Return ==
    /\ last_call # NoCall
    /\ last_call' = NoCall
    /\ UNCHANGED <<client_env, client_up, api_token, token_expiry, api_creds,
                   token_file, clock>>
    /\ UNCHANGED <<flushVars, runOwnVars, exVars, fnVars>>

\* time passes between two calls
Tick(d) ==
    /\ last_call = NoCall
    /\ clock + d <= MaxClock
    /\ clock' = clock + d
    /\ UNCHANGED <<client_env, client_up, api_token, token_expiry, api_creds,
                   token_file, last_call>>
    /\ UNCHANGED <<flushVars, runOwnVars, exVars, fnVars>>

ClientInit == NewAPIStore /\ RunIdle /\ ExIdle /\ ClientStart /\ FnIdle

ClientNext ==
    \/ Construct
    \/ Call
    \/ Return
    \/ \E d \in TickSteps : Tick(d)

SpecClient == ClientInit /\ [][ClientNext]_vars

\* the events of the last call of _request_with_retry
CallEvents == IF last_call.op = "request" THEN last_call.events ELSE <<>>

\* the position of the first request of the endpoint among the events
FirstRequest == IF CallEvents[1].kind = "login" THEN 2 ELSE 1

RequestCount == Cardinality({i \in DOMAIN CallEvents : CallEvents[i].kind = "request"})

\* what the call handed back is the response of the request at position i
ReturnedIs(i) ==
    /\ CallEvents[i].kind = "request"
    /\ last_call.returned = CallEvents[i].status
    /\ last_call.raised = (CallEvents[i].status = 0)

\* C12: a call requests the endpoint at most twice. When the first response
\* is 401 or 403 and credentials are configured, exactly one login follows;
\* the request is re-sent once, and its response returned whatever its
\* status, exactly when that login succeeded; otherwise the first response
\* is returned. With no credentials, or any other first response, nothing
\* follows the first request.
C12_ReauthenticateOnce ==
    last_call.op = "request" =>
        LET i == FirstRequest IN
        /\ RequestCount <= 2
        /\ IF CallEvents[i].status \in {401, 403} /\ api_creds
           THEN /\ Len(CallEvents) >= i + 1
                /\ CallEvents[i + 1].kind = "login"
                /\ IF CallEvents[i + 1].ok
                   THEN Len(CallEvents) = i + 2 /\ ReturnedIs(i + 2)
                   ELSE Len(CallEvents) = i + 1 /\ ReturnedIs(i)
           ELSE Len(CallEvents) = i /\ ReturnedIs(i)

\* C12 witness: 401, a successful login, the request re-sent with the new
\* token, and its 401 returned with no third request
C12_Witness ==
    /\ last_call.op = "request"
    /\ Len(CallEvents) = 3
    /\ CallEvents[1].kind = "request" /\ CallEvents[1].status = 401
    /\ CallEvents[2].kind = "login" /\ CallEvents[2].ok
    /\ CallEvents[3].kind = "request" /\ CallEvents[3].token = api_token
    /\ CallEvents[3].token # CallEvents[1].token
    /\ last_call.returned = 401

\* seconds left, when the last call started, until the expiry the client held
ExpiryAway == last_call.expiry_before - clock

\* C13: a call that starts with a token whose expiry is at most 30 seconds
\* away, in a client with credentials, posts a login before it requests the
\* endpoint; a call that starts with a token whose expiry is more than 30
\* seconds away requests the endpoint with no login before it.
C13_RefreshBeforeExpiry ==
    (/\ last_call.op = "request"
     /\ last_call.token_before # 0
     /\ last_call.expiry_before # 0)
    => /\ (ExpiryAway <= 30 /\ api_creds) => CallEvents[1].kind = "login"
       /\ ExpiryAway > 30 => CallEvents[1].kind = "request"

\* C13 witness: a token obtained with 31 seconds to live is refreshed by the
\* call made one second later, before the endpoint is requested
C13_Witness ==
    /\ last_call.op = "request"
    /\ last_call.token_before # 0
    /\ ExpiryAway = 30
    /\ api_creds
    /\ CallEvents[1].kind = "login"
    /\ CallEvents[2].kind = "request"

\* the last login of the last call
LastLogin ==
    LET at == {i \in DOMAIN CallEvents : CallEvents[i].kind = "login"}
    IN IF at = {} THEN LoginEvent(NotAuthenticated(0))
       ELSE CallEvents[CHOOSE i \in at : \A j \in at : j <= i]

\* the cache file as the constructor found it holds a token whose expiry is
\* more than 30 seconds away
CacheFresh ==
    /\ token_file.exists
    /\ token_file.access_token # 0
    /\ token_file.expiry_ts - clock > 30

\* after a login that obtained a token with an expiry and wrote the cache
\* file, the file holds that token and that expiry
C14_Saved ==
    (LastLogin.ok /\ LastLogin.expiry_ts # 0 /\ LastLogin.saved)
    => token_file = [access_token |-> api_token,
                     expiry_ts |-> LastLogin.expiry_ts, exists |-> TRUE]

\* a client constructed more than 30 seconds before the cached expiry holds
\* the cached token and expiry
C14_Loaded ==
    (last_call.op = "init" /\ CacheFresh)
    => /\ api_token = token_file.access_token
       /\ token_expiry = token_file.expiry_ts

\* the first request of that client carries the cached token and no login
\* is posted before it
C14_FirstRequest ==
    (last_call.op = "init" /\ CacheFresh /\ last_call'.op = "request")
    => /\ last_call'.events[1].kind = "request"
       /\ last_call'.events[1].token = token_file.access_token

-----------------------------------------------------------------------------
(*       JobExtractor objects of several candidates on one database         *)

\* candidate ids: 1..MaxCands
CandidateIds == 1..MaxCands

\* JobExtractor.__init__ lines 29-40 for candidate cand, on the database and
\* the APIStore as they are
JobExtractor(cand, loads) ==
    /\ candidate_id' = cand
    /\ seen_jobs' = _load_seen_jobs(extracted_jobs, owners, cand, loads)
    /\ epc' = "idle"
    /\ limit' = 0
    /\ combos_left' = 0
    /\ total_extracted' = 0
    /\ extracted_total' = 0
    /\ jobs_per_page' = 0
    /\ iteration' = 0
    /\ processed_job_ids_on_page' = {}
    /\ links' = 0
    /\ found_new_in_iteration' = FALSE
    /\ counted_keys' = {}
    /\ last_exam' = NoExam
    /\ raised_msg' = <<>>
    /\ UNCHANGED <<extracted_jobs, owners, budget_pages>>

\* the first extractor of the process, on an empty table
OwnersInit ==
    /\ NewAPIStore /\ RunIdle /\ ClientIdle /\ FnIdle
    /\ \E cand \in CandidateIds :
          /\ candidate_id = cand
          /\ seen_jobs = _load_seen_jobs({}, NoRows, cand, TRUE)
    /\ extracted_jobs = {}
    /\ owners = NoRows
    /\ epc = "idle"
    /\ limit = 0
    /\ combos_left = 0
    /\ total_extracted = 0
    /\ extracted_total = 0
    /\ jobs_per_page = 0
    /\ budget_pages = MaxPages
    /\ iteration = 0
    /\ processed_job_ids_on_page = {}
    /\ links = 0
    /\ found_new_in_iteration = FALSE
    /\ counted_keys = {}
    /\ last_exam = NoExam
    /\ raised_msg = <<>>

\* start_extract has returned or raised; the next extractor is constructed
\* (daily_extractor.py line 193 constructs one per distance bucket). The
\* sync buffer is kept within MaxQueue records by constructing no further
\* extractor once it holds that many.
NextExtractor(cand, loads) ==
    /\ epc \in {"returned", "raised"}
    /\ Len(batch_buffer) < MaxQueue
    /\ JobExtractor(cand, loads)
    /\ UNCHANGED flushVars /\ UNCHANGED runVars

OwnersNext ==
    \/ ExtractNext
    \/ \E cand \in CandidateIds, loads \in BOOLEAN : NextExtractor(cand, loads)

SpecOwners == OwnersInit /\ [][OwnersNext]_vars

\* the keys recorded for candidate cand
KeysOf(cand) == {k \in Keys : owners[k] = cand}

\* C17: the seen set is scoped per owner: an extractor that has been
\* constructed and has not started holds in seen_jobs only keys recorded for
\* its own candidate.
C17_SeenScopedPerOwner ==
    epc = "idle" => seen_jobs \subseteq KeysOf(candidate_id)

-----------------------------------------------------------------------------
(*                 extraction_loop on a catalog without end                 *)

\* pages that fit into MAX_SEARCH_TIME (3600 s, search.py line 33) when a
\* page takes little time: enough for the offset to pass OffsetCeiling
LongBudgetPages == 41

PagingInit ==
    /\ NewAPIStore /\ RunIdle /\ ClientIdle /\ FnIdle
    /\ ExConstructed
    /\ budget_pages = LongBudgetPages

SpecPaging == PagingInit /\ [][ExtractNext]_vars

\* C20: the page offset of extraction_loop never reaches 1000, whichever
\* pagination path is taken.
C20_OffsetBelowCeiling == jobs_per_page < 1000

-----------------------------------------------------------------------------
(*                   Further properties of extraction_loop                  *)

\* the time budget of the pair is spent when the loop is at its head
BudgetSpent == epc = "page" /\ jobs_per_page >= budget_pages * PageSize

\* C21: once the time budget of a (query, location) pair is spent, the next
\* step of the loop ends it with the count saved so far, whatever is left of
\* the quota: no page is scrolled or extracted, nothing is saved or queued.
C21_TimeBudgetEndsLoop ==
    [][BudgetSpent =>
          /\ epc' \in {"combo", "returned"}
          /\ total_extracted' = total_extracted + extracted_total
          /\ batch_buffer' = batch_buffer
          /\ seen_jobs' = seen_jobs
          /\ extracted_jobs' = extracted_jobs]_vars

\* C21 witness: the budget is spent at the head of the loop with one record
\* saved out of a quota of two
C21_Witness ==
    /\ BudgetSpent
    /\ limit = 2
    /\ extracted_total = 1
    /\ ~LimitReached(extracted_total, LoopLimit)

\* C24: the count of extraction_loop grows only with the sync buffer: each
\* increment of extracted_total goes with one record appended to
\* batch_buffer, so the value returned is the number of records queued.
C24_CountEqualsQueued ==
    [][extracted_total' > extracted_total
          => Len(batch_buffer') - Len(batch_buffer)
                 = extracted_total' - extracted_total]_vars

\* C25: a new element that is not fast-apply is clicked only after the
\* seen-set test found its key absent; its key joins the seen set only when
\* the click and save_job were both made before, and when the click raises
\* the seen set is left as it was.
C25_SeenAddedAfterSideEffects ==
    [][last_exam'.clicked =>
          /\ ~last_exam'.seen_before
          /\ (seen_jobs' # seen_jobs) => last_exam'.save_called
          /\ ~last_exam'.save_called
                => (seen_jobs' = seen_jobs /\ ~last_exam'.seen_added)]_vars

\* C25 witness: the click on a new element raised, nothing was saved and the
\* seen set is empty still
C25_Witness ==
    /\ last_exam.clicked
    /\ ~last_exam.save_called
    /\ ~last_exam.seen_added
    /\ seen_jobs = {}
    /\ processed_job_ids_on_page # {}

\* C30: an element classified as fast-apply is not clicked, save_job is not
\* called and nothing is queued for it, the table and both counters stay as
\* they were, and its key is added to the seen set.
C30_EasyApplySkipped ==
    [][last_exam'.easy =>
          /\ ~last_exam'.clicked
          /\ ~last_exam'.save_called
          /\ ~last_exam'.queued
          /\ batch_buffer' = batch_buffer
          /\ extracted_jobs' = extracted_jobs
          /\ extracted_total' = extracted_total
          /\ total_extracted' = total_extracted
          /\ counted_keys' = counted_keys
          /\ last_exam'.seen_added
          /\ seen_jobs' # seen_jobs
          /\ seen_jobs \subseteq seen_jobs']_vars

\* C30 witness: a fast-apply element was examined after one record was
\* saved; its key joined the seen set and the count is still one
C30_Witness ==
    /\ last_exam.easy
    /\ ~last_exam.clicked
    /\ extracted_total = 1
    /\ Len(batch_buffer) = 1
    /\ Cardinality(seen_jobs) = 2

\* C31: an element whose text cannot be read ends the pass: no element
\* after it is examined in this pass, nothing is clicked, saved or counted,
\* the table, the buffer and the seen set keep what they hold, and no
\* exception leaves the loop.
C31_UnreadableEndsPass ==
    [][last_exam'.unreadable =>
          /\ links' = 0
          /\ epc' = "link"
          /\ raised_msg' = raised_msg
          /\ ~last_exam'.clicked /\ ~last_exam'.save_called
          /\ batch_buffer' = batch_buffer
          /\ extracted_jobs' = extracted_jobs
          /\ seen_jobs' = seen_jobs
          /\ extracted_total' = extracted_total
          /\ total_extracted' = total_extracted]_vars

\* C31 witness: the element that could not be read was followed by another,
\* one record had been saved before; the pass is over and the record kept
C31_Witness ==
    /\ last_exam.unreadable
    /\ links = 0
    /\ epc = "link"
    /\ extracted_total = 1
    /\ Len(batch_buffer) = 1
    /\ raised_msg = <<>>

\* C32: an element for which extract_job_id returns None is skipped: the
\* pass goes on with the element after it, and the seen set, the counters,
\* the table and the buffer are left as they were.
C32_NoKeySkipped ==
    [][last_exam'.no_id =>
          /\ links' = links - 1
          /\ epc' = "link"
          /\ ~last_exam'.clicked /\ ~last_exam'.save_called
          /\ ~last_exam'.seen_added /\ ~last_exam'.counted
          /\ seen_jobs' = seen_jobs
          /\ processed_job_ids_on_page' = processed_job_ids_on_page
          /\ found_new_in_iteration' = found_new_in_iteration
          /\ batch_buffer' = batch_buffer
          /\ extracted_jobs' = extracted_jobs
          /\ extracted_total' = extracted_total
          /\ total_extracted' = total_extracted]_vars

\* C32 witness: an element without a key was skipped and another is left to
\* examine in the pass
C32_Witness ==
    /\ last_exam.no_id
    /\ links > 0
    /\ epc = "link"

\* C33: when the page loaded reports no results, the loop ends for the unit
\* with the count saved so far: the step leads from the head of the page
\* loop to the return, with no scroll, no pass over elements and no
\* pagination, and nothing is saved or queued.
C33_NoResultsEndsLoop ==
    [][last_exam'.no_results =>
          /\ epc = "page"
          /\ epc' \in {"combo", "returned"}
          /\ total_extracted' = total_extracted + extracted_total
          /\ iteration' = iteration
          /\ links' = links
          /\ processed_job_ids_on_page' = processed_job_ids_on_page
          /\ batch_buffer' = batch_buffer
          /\ seen_jobs' = seen_jobs
          /\ extracted_jobs' = extracted_jobs]_vars

\* C33 witness: the second page reported no results after one record of a
\* quota of two was saved on the first; the loop returned that count
C33_Witness ==
    /\ last_exam.no_results
    /\ epc = "combo"
    /\ limit = 2
    /\ total_extracted = 1
    /\ Len(batch_buffer) = 1

\* C39: whenever save_job writes a key into the extracted_jobs table, the
\* record of that key is appended to the sync buffer in the same call.
C39_PersistedImpliesQueued ==
    [][extracted_jobs' # extracted_jobs =>
          /\ Len(batch_buffer') = Len(batch_buffer) + 1
          /\ batch_buffer'[Len(batch_buffer')].source_job_id
                 \in extracted_jobs' \ extracted_jobs]_vars

\* C39, the state the claim excludes: save_job has written the row of key 1
\* into a table that was empty when the extractor loaded it, and returned
\* without appending; the key is counted and seen, and the buffer is empty
C39_PersistedNotQueued ==
    /\ last_exam.save_called
    /\ ~last_exam.queued
    /\ extracted_jobs = {1}
    /\ counted_keys = {1}
    /\ seen_jobs = {1}
    /\ batch_buffer = <<>>

-----------------------------------------------------------------------------
(*                  Further properties of flush_batches                     *)

\* C34: flush_batches never raises to its caller: whatever the bulk call and
\* each individual fallback call end with (any status, an exception or a
\* timeout), every call of flush_batches returns normally.
C34_FlushNeverRaises ==
    [][flush_calls' # flush_calls => last_flush'.returned]_vars

\* C34 witness: a flush of two records returned although the bulk call was
\* answered 422 and both individual inserts raised
C34_Witness ==
    /\ last_flush.returned
    /\ Len(last_flush.pre) = 2
    /\ last_flush.bulk = Response(422)
    /\ last_flush.ind = <<Raised, Raised>>

\* C34 witness: a flush returned although the bulk call itself raised
C34_WitnessBulk ==
    /\ last_flush.returned
    /\ last_flush.pre # <<>>
    /\ last_flush.bulk = Raised

-----------------------------------------------------------------------------
(*                  Further properties of BaseAPIClient                     *)

\* the logins of the last call that succeeded
OkLogins == {i \in DOMAIN CallEvents :
                CallEvents[i].kind = "login" /\ CallEvents[i].ok}
LastOkLogin == CHOOSE i \in OkLogins : \A j \in OkLogins : j <= i

\* C38: after a successful _authenticate the in-memory token_expiry is that
\* of the token just obtained: the expiry computed from expires_in when the
\* login response carries one, and none (0) when it carries none.
C38_ExpiryDescribesToken ==
    (last_call.op = "request" /\ OkLogins # {}) =>
        token_expiry = CallEvents[LastOkLogin].expiry_ts

\* C38, the state the claim excludes: a login that carried no expiry has
\* replaced the token, and the client still holds the expiry of the token
\* it held before
C38_StaleExpiry ==
    /\ last_call.op = "request"
    /\ OkLogins # {}
    /\ CallEvents[LastOkLogin].expiry_ts = 0
    /\ last_call.expiry_before # 0
    /\ token_expiry = last_call.expiry_before

-----------------------------------------------------------------------------
(*              JobIdentity.extract_job_id (job_identity.py)                *)

MaxAnchors == 2

\* the ids a page may carry, and 0 for none
JobIds == {1, 2}
JobIdOrNone == JobIds \cup {0}

\* a link target, by what the two patterns find in it: the digits after the
\* first "/view/" and after the first "currentJobId=" (0: the pattern does
\* not occur); the empty string has neither
Hrefs ==
    {h \in [empty : BOOLEAN, view : JobIdOrNone, cur : JobIdOrNone] :
        h.empty => (h.view = 0 /\ h.cur = 0)}
NoHref == [empty |-> TRUE, view |-> 0, cur |-> 0]

AnchorLists == UNION {[1..n -> Hrefs] : n \in 0..MaxAnchors}

\* what may go wrong in Selenium: reading an attribute of the element, or
\* looking up its descendants
ElementFaults == {"none", "get_attribute", "find_elements"}

\* a job card element; data_href is written only when href is empty, since
\* it is read only then
Elements ==
    {e \in [data_job_id : JobIdOrNone, href : Hrefs, data_href : Hrefs,
            anchors : AnchorLists, fault : ElementFaults] :
        ~e.href.empty => e.data_href = NoHref}

\* the patterns tried in the other order
SearchPatterns_CurrentFirst(h) ==
    IF h.cur # 0 THEN h.cur
    ELSE IF h.view # 0 THEN h.view
    ELSE 0

\* lines 22-27 and 35-40: re.search(r"/view/(\d+)") and then
\* re.search(r"currentJobId=(\d+)"); 0 when neither matches
SearchPatterns(h) ==
    IF h.view # 0 THEN h.view
    ELSE IF h.cur # 0 THEN h.cur
    ELSE 0

\* line 19: href, or data-href when href is empty, or ""
OwnHref(e) == IF ~e.href.empty THEN e.href ELSE e.data_href

\* lines 32-40: the first anchor, in the order find_elements gave them,
\* whose href matches
RECURSIVE SearchAnchors(_, _)
SearchAnchors(anchors, i) ==
    IF i > Len(anchors) THEN 0
    ELSE IF SearchPatterns(anchors[i]) # 0 THEN SearchPatterns(anchors[i])
    ELSE SearchAnchors(anchors, i + 1)

\* lines 12-48; 0 is None
extract_job_id(e) ==
    IF e.fault = "get_attribute" THEN 0
    ELSE IF e.data_job_id # 0 THEN e.data_job_id
    ELSE IF SearchPatterns(OwnHref(e)) # 0 THEN SearchPatterns(OwnHref(e))
    ELSE IF e.fault = "find_elements" THEN 0
    ELSE SearchAnchors(e.anchors, 1)

\* an extract_job_id that notes the key it found in the seen set
ExtractJobId_Records ==
    /\ fpc \in {"call", "done"}
    /\ fpc' = IF fpc = "call" THEN "done" ELSE "again"
    /\ found_id' = extract_job_id(element)
    /\ seen_jobs' = seen_jobs \cup (JobIds \cap {found_id'})
    /\ UNCHANGED <<element, countryVars, scrollVars>>
    /\ UNCHANGED <<flushVars, runOwnVars, clientVars>>
    /\ UNCHANGED <<epc, limit, combos_left, total_extracted, extracted_total,
                   jobs_per_page, budget_pages, iteration,
                   processed_job_ids_on_page, links, found_new_in_iteration,
                   extracted_jobs, owners, candidate_id, counted_keys,
                   last_exam, raised_msg>>

\* a call of the static method JobIdentity.extract_job_id(element), the
\* first or the second on the element: it reads attributes of the element
\* and of its descendants and returns; it has no self and assigns nothing
\* but its locals
ExtractJobId ==
    /\ fpc \in {"call", "done"}
    /\ fpc' = IF fpc = "call" THEN "done" ELSE "again"
    /\ found_id' = extract_job_id(element)
    /\ UNCHANGED <<element, countryVars, scrollVars>>
    /\ UNCHANGED <<flushVars, runOwnVars, clientVars, exVars>>

IdentityInit ==
    /\ NewAPIStore /\ RunIdle /\ ExIdle /\ ClientIdle
    /\ fpc = "call"
    /\ element \in Elements
    /\ found_id = 0
    /\ CountryIdle /\ ScrollIdle

IdentityNext == ExtractJobId

SpecIdentity == IdentityInit /\ [][IdentityNext]_vars

\* the descendant links of the element that carry one of the two patterns
MatchingAnchors == {i \in DOMAIN element.anchors :
                      element.anchors[i].view # 0 \/ element.anchors[i].cur # 0}
FirstMatching == CHOOSE i \in MatchingAnchors : \A j \in MatchingAnchors : i <= j

\* C22: extract_job_id on an element that can be read returns the identity
\* attribute when it is set; else the /view/ id of the element's own link,
\* else its current-id parameter; else the same from the first descendant
\* link, in document order, that has either; and none when nothing matches.
C22_FirstSourceWins ==
    (fpc = "done" /\ element.fault = "none") =>
        LET own == IF element.href.empty THEN element.data_href
                   ELSE element.href
        IN  IF element.data_job_id # 0 THEN found_id = element.data_job_id
            ELSE IF own.view # 0 THEN found_id = own.view
            ELSE IF own.cur # 0 THEN found_id = own.cur
            ELSE IF MatchingAnchors = {} THEN found_id = 0
            ELSE LET a == element.anchors[FirstMatching]
                 IN  found_id = IF a.view # 0 THEN a.view ELSE a.cur

\* C22 witness: no identity attribute, an own link without an id, a first
\* descendant link without an id and a second one carrying both patterns
C22_Witness ==
    /\ fpc = "done"
    /\ element.fault = "none"
    /\ element.data_job_id = 0
    /\ ~element.href.empty /\ element.href.view = 0 /\ element.href.cur = 0
    /\ Len(element.anchors) = 2
    /\ element.anchors[1] = [empty |-> FALSE, view |-> 0, cur |-> 0]
    /\ element.anchors[2] = [empty |-> FALSE, view |-> 1, cur |-> 2]
    /\ found_id = 1

C36_WitnessNone ==
    /\ fpc = "again"
    /\ found_id = 0
    /\ element.fault = "get_attribute"
    /\ element.data_job_id = 1

-----------------------------------------------------------------------------
(*          APIStore._prepare_payload: the country (api_store.py)           *)

DigitChars == {"0","1","2","3","4","5","6","7","8","9"}

\* str.isdigit(): not empty and digits only
IsDigit(s) == Len(s) > 0 /\ \A i \in DOMAIN s : s[i] \in DigitChars

\* str.strip() on text whose only white space is the blank
RECURSIVE Strip(_)
Strip(s) ==
    IF Len(s) = 0 THEN s
    ELSE IF s[1] = " " THEN Strip(Tail(s))
    ELSE IF s[Len(s)] = " " THEN Strip(SubSeq(s, 1, Len(s) - 1))
    ELSE s

USA == <<"U","S","A">>
India == <<"I","n","d","i","a">>
KW_INDIA == <<"i","n","d","i","a">>
KW_UNITED_STATES == <<"u","n","i","t","e","d"," ","s","t","a","t","e","s">>
KW_USA == <<"u","s","a">>
KW_REMOTE == <<"r","e","m","o","t","e">>

\* job_data.get('zipcode'): the zipcode start_extract was called with
Zipcodes ==
    { <<>>, <<"7","8","7","0","1">>, <<" ","7","8","7","0","1"," ">>, <<"5","6","0","0","0","1">>, <<"I","n","d","i","a">>, <<"7","8","7","0","a">> }

\* job_data.get('location'): the location text of the card
Locations ==
    { <<>>, <<"A","u","s","t","i","n",","," ","T","X">>, <<"P","u","n","e",","," ","I","n","d","i","a">>, <<"R","e","m","o","t","e">>, <<"U","n","i","t","e","d"," ","S","t","a","t","e","s">>,
      <<"H","o","u","s","t","o","n",","," ","U","S","A">>, <<"T","o","r","o","n","t","o",","," ","O","N">> }

\* os.environ DEFAULT_COUNTRY; <<>> when it is not set
DefaultCountries == { <<>>, <<"C","a","n","a","d","a">>, <<"I","n","d","i","a">> }

\* lines 42-60 and line 72: the 5-digit test first; the cues are looked at
\* only `if not country`; then os.getenv('DEFAULT_COUNTRY', 'USA')
DeriveCountry(zipcode, location, env) ==
    LET zipcode_raw == Strip(zipcode)
        location_field == Lower(Strip(location))
    IN  IF IsDigit(zipcode_raw) /\ Len(zipcode_raw) = 5 THEN USA
        ELSE IF Contains(KW_INDIA, Lower(zipcode_raw))
            \/ Contains(KW_INDIA, location_field) THEN India
        ELSE IF Contains(KW_UNITED_STATES, location_field)
            \/ Contains(KW_USA, location_field) THEN USA
        ELSE IF Contains(KW_REMOTE, location_field) THEN USA
        ELSE IF env = <<>> THEN USA ELSE Strip(env)

PreparePayload ==
    /\ fpc = "call"
    /\ fpc' = "done"
    /\ country' = DeriveCountry(job_data.zipcode, job_data.location,
                                default_country)
    /\ UNCHANGED <<identityVars, job_data, default_country, scrollVars>>
    /\ UNCHANGED <<flushVars, runOwnVars, clientVars, exVars>>

CountryInit ==
    /\ NewAPIStore /\ RunIdle /\ ExIdle /\ ClientIdle
    /\ fpc = "call"
    /\ IdentityIdle /\ ScrollIdle
    /\ job_data \in [zipcode : Zipcodes, location : Locations]
    /\ default_country \in DefaultCountries
    /\ country = <<>>

CountryNext == PreparePayload

SpecCountry == CountryInit /\ [][CountryNext]_vars

\* the location or the postal text carries the cue of India
CueIndia ==
    \/ Contains(KW_INDIA, Lower(job_data.zipcode))
    \/ Contains(KW_INDIA, Lower(job_data.location))

\* C23: in the payload a textual cue of the location or postal text decides
\* the country even when the postal code has 5 digits: with the cue "india"
\* the country is India.
C23_CueOverridesPostalCode ==
    (fpc = "done" /\ CueIndia) => country = India

-----------------------------------------------------------------------------
(*        The sync buffer of the extractors of one run (extractor.py)       *)

\* extractor.py line 37: self.api_store = api_store if api_store else
\* APIStore(); the buffer of the store the new extractor appends to, `given`
\* telling whether the caller passed a store and `buffer` being that store's
APIStoreOf(given, buffer) == IF given THEN buffer ELSE <<>>

\* daily_extractor.py lines 193-199, for the next distance bucket of the
\* same candidate: the call has no api_store keyword. The TypeError of the
\* mysql_store keyword (NewExtractorRaises) is left aside here, to see which
\* buffer the extractor of each bucket would append to.
NextBucketExtractor ==
    /\ epc \in {"returned", "raised"}
    /\ JobExtractor(candidate_id, TRUE)
    /\ batch_buffer' = APIStoreOf("api_store" \in CallKeywords, batch_buffer)
    /\ last_flush' = NoFlush
    /\ UNCHANGED flush_calls
    /\ UNCHANGED runVars

BucketsNext == ExtractNext \/ NextBucketExtractor

SpecBuckets == OwnersInit /\ [][BucketsNext]_vars

RetryExtractor ==
    /\ epc = "raised"
    /\ raised_msg \in SessionErrors
    /\ NextBucketExtractor

\* the first extractor of a location, on an empty table, with the time for
\* one page
RetryInit ==
    /\ NewAPIStore /\ RunIdle /\ ClientIdle /\ FnIdle
    /\ ExConstructed
    /\ extracted_jobs = {}
    /\ budget_pages = 1

RetryNext == ExtractNext \/ RetryExtractor

SpecRetry == RetryInit /\ [][RetryNext]_vars

\* the step that constructs the extractor of the retry
RetryStep ==
    /\ epc = "raised"
    /\ raised_msg \in SessionErrors
    /\ epc' = "idle"

-----------------------------------------------------------------------------
(*           The scroll routine of extraction_loop (extractor.py)           *)

\* line 130: max_scrolls = 20
max_scrolls == 20

\* line 151: the count unchanged on this many polls in a row ends the routine
StablePolls == 2

\* line 159: a full page of cards
FullPage == 25

\* len(self.get_elements("links")) at a poll: the page may show any number
\* of cards, more or fewer than at the poll before
CardCounts == 0..(FullPage + 1)

\* the routine goes on although the page is full
ScrollStops_NoFullPage(stable, count, rounds) ==
    \/ stable >= StablePolls
    \/ rounds >= max_scrolls

\* lines 132, 150-151, 159-160: the routine is left when the count was
\* unchanged on StablePolls polls in a row, when the page is full, or when
\* range(max_scrolls) is used up
ScrollStops(stable, count, rounds) ==
    \/ stable >= StablePolls
    \/ count >= FullPage
    \/ rounds >= max_scrolls

\* lines 132-160: one round of the loop; new_count is what the poll finds
ScrollRound(new_count) ==
    /\ fpc = "scroll"
    /\ LET stable == IF new_count = last_count THEN stable_iterations + 1
                     ELSE 0
       IN  /\ stable_iterations' = stable
           /\ last_count' = new_count
           /\ scroll_num' = scroll_num + 1
           /\ fpc' = IF ScrollStops(stable, new_count, scroll_num + 1)
                     THEN "scrolled" ELSE "scroll"
    /\ UNCHANGED <<identityVars, countryVars>>
    /\ UNCHANGED <<flushVars, runOwnVars, clientVars, exVars>>

\* lines 162-168: after the routine the extraction of the page starts
StartExtraction ==
    /\ fpc = "scrolled"
    /\ fpc' = "extract"
    /\ UNCHANGED <<identityVars, countryVars, scrollVars>>
    /\ UNCHANGED <<flushVars, runOwnVars, clientVars, exVars>>

\* lines 128-130: last_count = 0, stable_iterations = 0, no round made
ScrollInit ==
    /\ NewAPIStore /\ RunIdle /\ ExIdle /\ ClientIdle
    /\ IdentityIdle /\ CountryIdle
    /\ fpc = "scroll"
    /\ scroll_num = 0
    /\ last_count = 0
    /\ stable_iterations = 0

ScrollNext ==
    \/ \E new_count \in CardCounts : ScrollRound(new_count)
    \/ StartExtraction

SpecScroll == ScrollInit /\ [][ScrollNext]_vars

\* C27: the scroll routine makes at most 20 rounds; it goes on only while the
\* count has not been unchanged on 2 polls in a row, the page is not full
\* (25) and fewer than 20 rounds were made, and it is left as soon as one of
\* the three holds; the extraction can then start, whatever was counted.
C27_ScrollStopsAtFirstCondition ==
    /\ scroll_num <= 20
    /\ fpc = "scroll"
          => (stable_iterations < 2 /\ last_count < 25 /\ scroll_num < 20)
    /\ fpc \in {"scrolled", "extract"}
          => (stable_iterations >= 2 \/ last_count >= 25 \/ scroll_num = 20)
    /\ fpc = "scrolled" => ENABLED StartExtraction

\* C27 witness: twenty rounds were made on a page whose count kept changing
\* below a full page, and the extraction started
C27_Witness ==
    /\ fpc = "extract"
    /\ scroll_num = 20
    /\ stable_iterations = 0
    /\ last_count < 25

-----------------------------------------------------------------------------
(*      The passes over one page whose list keeps changing (extractor.py)   *)

\* the keys met so far
KeysMet == seen_jobs \cup processed_job_ids_on_page

\* a key never met before
FreshKey ==
    IF KeysMet = {} THEN 1
    ELSE 1 + CHOOSE k \in KeysMet : \A j \in KeysMet : j <= k

\* the card a pass may find: one without a key, a fast-apply card with a new
\* key, or the card whose key joined the seen set last
PassCards ==
    LET fresh == FreshKey
    IN  {[id |-> 0, easy |-> FALSE, fault |-> "none"],
         [id |-> fresh, easy |-> TRUE, fault |-> "none"]}
        \cup {[id |-> k, easy |-> FALSE, fault |-> "none"] :
                 k \in seen_jobs \cap {fresh - 1}}

PassesInit ==
    /\ NewAPIStore /\ RunIdle /\ ClientIdle /\ FnIdle
    /\ ExConstructed
    /\ budget_pages = 1

PassesNext ==
    \/ \E L \in 0..MaxLimit, nc \in 1..MaxCombos : StartExtract(L, nc)
    \/ NextCombo
    \/ CombosDone
    \/ \E e \in ExtractorErrors : NavigateFails(e)
    \/ TimeUp
    \/ BrowserDead
    \/ \E e \in ExtractorErrors : PageError(e)
    \/ NoResults
    \/ Scrolled
    \/ \E n \in 0..1 : PassHead(n)
    \/ EndPass
    \/ \E elem \in PassCards : ProcessLink(elem, "ok")
    \/ \E next_button \in BOOLEAN : AfterPage(next_button)
    \/ \E e \in ExtractorErrors : PaginateFails(e)

SpecPasses == PassesInit /\ [][PassesNext]_vars

\* C28: a pass that reached the end of the located elements without finding
\* a new one ends the extraction of the page, no pass follows it; and a page
\* is passed over at most 50 times: at the head of the loop after 50 passes
\* the extraction of the page ends.
C28_PageExtractionEnds ==
    [][/\ iteration' <= 50
       /\ (epc = "link" /\ links = 0 /\ ~found_new_in_iteration)
             => epc' = "after"
       /\ (epc = "pass" /\ iteration = 50) => epc' = "after"]_vars

\* C28 witness: fifty passes were made over the page, each one finding a new
\* card, and the loop is at its head
C28_Witness ==
    /\ epc = "pass"
    /\ iteration = 50
    /\ Cardinality(processed_job_ids_on_page) = 50

-----------------------------------------------------------------------------
(*          The pagination step of extraction_loop (extractor.py)           *)

\* the card a pass may find: one without a key, a card with a new key that
\* is clicked and saved, or the card whose key joined the seen set last
PagingCards ==
    LET fresh == FreshKey
    IN  {[id |-> 0, easy |-> FALSE, fault |-> "none"],
         [id |-> fresh, easy |-> FALSE, fault |-> "none"]}
        \cup {[id |-> k, easy |-> FALSE, fault |-> "none"] :
                 k \in seen_jobs \cap {fresh - 1}}

PaginateNext ==
    \/ \E L \in 0..MaxLimit, nc \in 1..MaxCombos : StartExtract(L, nc)
    \/ NextCombo
    \/ CombosDone
    \/ TimeUp
    \/ NoResults
    \/ Scrolled
    \/ \E n \in 0..1 : PassHead(n)
    \/ EndPass
    \/ \E elem \in PagingCards : ProcessLink(elem, "ok")
    \/ \E next_button \in BOOLEAN : AfterPage(next_button)

SpecPaginate == PagingInit /\ [][PaginateNext]_vars

\* the loop is after a page, with the quota exhausted or not
AfterPageQuotaLeft == epc = "after" /\ extracted_total < limit - total_extracted
AfterPageQuotaSpent == epc = "after" /\ extracted_total >= limit - total_extracted

=============================================================================
